---- MODULE Spec2Model ----
(***************************************************************************)
(* Model of the reliability layer of morpheum-labs/pricefeeding:           *)
(*   - the price cache (pricefeed/price_cache.go) with its size estimator  *)
(*     and pruner,                                                         *)
(*   - the Chainlink fetch with failover (chainlink.FetchPriceData) and    *)
(*     the orchestrator cycle (CLPriceMonitor.updateAllPrices),            *)
(*   - the endpoint probe and latency selection (rpcscan/rpcswitcher.go).  *)
(* Strings are sequences of one-character strings, so that prefixing,      *)
(* prefix tests and substring tests are computed as the code computes      *)
(* them.                                                                   *)
(***************************************************************************)
EXTENDS Integers, Sequences, FiniteSets, TLC

VARIABLES
    data,                 \* PriceCache.data : networkID -> prefixed -> PriceInfo
    feeds,                \* PriceCache.feeds: networkID -> list of prefixed identifiers
    mu,                   \* PriceCache.mu  : 0 = free, p = write-held by caller p
    customSizeEstimators, \* registry: concrete kind -> registered estimator
    pc,                   \* position of every cache caller
    args,                 \* arguments of the UpdatePrice call a caller is inside
    lastPut,              \* history: last value written per (network, source, identifier)
    pruned,               \* history: keys removed by the pruner and not written since
    nOps,                 \* number of cache calls started so far
    noopAdds,             \* history: number of AddFeed calls that found the feed tracked
    clients,              \* CLPriceMonitor.clients: networkID -> client
    networkConfig,        \* CLPriceMonitor.networkConfig is set (not nil)
    ClientUse,            \* NetworkConfiguration.ClientUse: networkID -> client
    call,                 \* the fetch each goroutine / caller is making
    cycle,                \* position of updateAllPrices: "idle", "running", "done"
    snapClients,          \* updateAllPrices' local copy of the clients
    snapFeeds,            \* updateAllPrices' local copy of the cache's feeds
    semaphore,            \* number of tokens held in updateAllPrices' semaphore
    fanout,               \* a large cycle: what each goroutine of the fan-out is doing
    probeCycle,           \* position of one tick of MonitorAllRPCEndpoints
    netPhase,             \* per configured network: position of its goroutine
    probed,               \* per (network, endpoint): the latency its probe sent
    latencyChan,          \* per network: the results sent and not yet received
    chanClosed,           \* per network: latencyChan has been closed
    bestEndpoint,         \* per network: the goroutine's bestEndpoint
    bestLatency,          \* per network: the goroutine's bestLatency
    bestEndpoints,        \* the map getBestRPCEndpointsParallel returns
    readers,              \* PriceCache.mu: the callers that hold it for reading
    netconfMu,            \* NetworkConfiguration.mu: 0 = no writer, n = held to write entry n
    publish,              \* MonitorAllRPCEndpoints' loop over the best endpoints
    getters,              \* the GetBestClient call each caller is making
    tableOps,             \* number of GetBestClient calls started so far
    stopChan,             \* per periodic loop: its stop channel has been closed
    loopPc,               \* per periodic loop: "select", "cycle" or "returned"
    tickPending,          \* per periodic loop: a tick waits in ticker.C
    ticks,                \* number of ticks the tickers have produced so far
    customEstimatorsMu,   \* customEstimatorsMu: 0 = no writer, p = write-held by caller p
    estimatorReaders,     \* customEstimatorsMu: the callers that hold it for reading
    sizing,               \* per caller of the size estimator: the call it is inside
    sizeOps,              \* number of size-estimator calls started so far
    returned,             \* the maps a caller holds: the last listing of prices and of clients
    hermes,               \* HermesClient: its httpRetries and the httpRequest call under way
    ws,                   \* WebSocketClient: conn, connected, reconnectCount, ctx, and history
    wsProcs,              \* the goroutines of the WebSocket client
    panicked              \* the run-time panic that has ended the process, "" when none

cacheVars == <<data, feeds, mu, customSizeEstimators, pc, args, lastPut, pruned, nOps,
               noopAdds>>

fetchVars == <<clients, networkConfig, ClientUse, call, cycle, snapClients, snapFeeds, semaphore>>

probeVars == <<probeCycle, netPhase, probed, latencyChan, chanClosed, bestEndpoint,
               bestLatency, bestEndpoints>>

\* what only the specifications of the locks and of the loops change
\* the registry of size estimators under its own lock
registryVars == <<customEstimatorsMu, estimatorReaders, sizing, sizeOps>>

\* the Pyth clients: the Hermes HTTP client and the WebSocket client
pythVars == <<hermes, ws, wsProcs>>

auxVars == <<readers, netconfMu, publish, getters, tableOps, stopChan, loopPc, tickPending, ticks,
             registryVars, returned, pythVars, panicked>>

vars == <<cacheVars, fetchVars, fanout, probeVars, auxVars>>

----------------------------------------------------------------------------
(* Bounds                                                                  *)

\* number of cache calls (AddFeed, UpdatePrice, PruneCache,
\* RegisterSizeEstimator) made in one behaviour
MaxOps == 3

\* WebSocketConfig.MaxReconnects of the client that is checked
MaxReconnects == 2

\* number of dials of the WebSocket client in one behaviour
MaxDials == 4

\* largest MaxRetries a caller of FetchPriceData passes
MaxRetriesBound == 2

\* number of feeds, over all networks, of a cycle that fills the semaphore
FanoutFeeds == 11

\* number of GetBestClient calls made in one behaviour
MaxTableOps == 3

\* number of ticks the tickers of the periodic loops produce in one behaviour
MaxTicks == 3

\* number of RegisterSizeEstimator and EstimatePriceInfoSize calls made in one
\* behaviour of the registry
MaxSizeOps == 4

----------------------------------------------------------------------------
(* Strings                                                                 *)

SourceChainlink == <<"c","h","a","i","n","l","i","n","k">>
SourcePyth == <<"p","y","t","h">>
SourceCustom == <<"c","u","s","t","o","m">>

Sources == {SourceChainlink, SourcePyth, SourceCustom}

\* identifiers are arbitrary strings; one of them contains the separator
Identifiers == {<<"a">>, <<"p","y","t","h",":","a">>}

Networks == {1, 2}

\* the (network, source, identifier) triples the callers use: one raw
\* identifier shared by all sources, one identifier that begins like another
\* source's prefix, and a second network
Triples ==
    { <<1, SourceChainlink, <<"a">>>>,
      <<1, SourceChainlink, <<"p","y","t","h",":","a">>>>,
      <<1, SourcePyth, <<"a">>>>,
      <<1, SourceCustom, <<"a">>>>,
      <<2, SourceChainlink, <<"a">>>>,
      <<2, SourceCustom, <<"a">>>> }

HasPrefix(s, prefix) ==
    /\ Len(s) >= Len(prefix)
    /\ SubSeq(s, 1, Len(prefix)) = prefix

TrimPrefix(s, prefix) ==
    IF HasPrefix(s, prefix) THEN SubSeq(s, Len(prefix) + 1, Len(s)) ELSE s

Contains(s, sub) ==
    \E i \in 0..(Len(s) - Len(sub)) : SubSeq(s, i + 1, i + Len(sub)) = sub

DigitChar(d) ==
    CASE d = 0 -> "0" [] d = 1 -> "1" [] d = 2 -> "2" [] d = 3 -> "3"
      [] d = 4 -> "4" [] d = 5 -> "5" [] d = 6 -> "6" [] d = 7 -> "7"
      [] d = 8 -> "8" [] d = 9 -> "9"

RECURSIVE FormatUint(_)
FormatUint(n) ==
    IF n < 10 THEN <<DigitChar(n)>>
    ELSE Append(FormatUint(n \div 10), DigitChar(n % 10))

MakePrefixedIdentifierNoSource(source, identifier) == identifier

\* a key that would abbreviate the source to its first letter
MakePrefixedIdentifierFirstLetter(source, identifier) ==
    <<Head(source)>> \o <<":">> \o identifier

makePrefixedIdentifier(source, identifier) ==
    source \o <<":">> \o identifier

----------------------------------------------------------------------------
(* Maps                                                                    *)

MapPut(m, k, v) == [x \in (DOMAIN m) \cup {k} |-> IF x = k THEN v ELSE m[x]]
MapDel(m, k) == [x \in (DOMAIN m) \ {k} |-> m[x]]
EmptyMap == [x \in {} |-> 0]

RECURSIVE SumOver(_, _)
SumOver(S, f) ==
    IF S = {} THEN 0
    ELSE LET x == CHOOSE y \in S : TRUE IN f[x] + SumOver(S \ {x}, f)

RECURSIVE SumSeq(_)
SumSeq(s) == IF s = <<>> THEN 0 ELSE Head(s) + SumSeq(Tail(s))

----------------------------------------------------------------------------
(* Records and size estimation                                             *)

MaxCacheSizeBytes == 10 * 1024 * 1024

Kinds == {"chainlink", "pyth", "sizable", "custom"}

\* the size a self-reporting record reports: two such records exceed the cap
SelfReportedSizes == {6 * 1024 * 1024}

\* the sizes a registered estimator returns
RegisteredSizes == {100, 6 * 1024 * 1024}

Answers == {1}

\* the timestamps records carry
Times == {1, 2}

PythSymbol == <<"B","T","C">>

\* the records a caller may pass for an identifier under a source
RecordsFor(source, identifier) ==
    IF source = SourceChainlink THEN
        { [kind |-> "chainlink", id |-> identifier, symbol |-> <<>>, ts |-> t, size |-> 0, answer |-> a]
            : t \in Times, a \in Answers }
    ELSE IF source = SourcePyth THEN
        { [kind |-> "pyth", id |-> identifier, symbol |-> PythSymbol, ts |-> t, size |-> 0, answer |-> a]
            : t \in Times, a \in Answers }
    ELSE
        { [kind |-> "sizable", id |-> identifier, symbol |-> <<>>, ts |-> t, size |-> z, answer |-> a]
            : t \in Times, z \in SelfReportedSizes, a \in Answers }
        \cup
        { [kind |-> "custom", id |-> identifier, symbol |-> <<>>, ts |-> t, size |-> 0, answer |-> a]
            : t \in Times, a \in Answers }

\* a nil types.PriceInfo
NilPriceInfo == [kind |-> "nil"]

\* an estimate that would look in the registry before it asks the record
EstimatePriceInfoSizeRegistryFirst(priceInfo, registry) ==
    IF priceInfo = NilPriceInfo THEN 0
    ELSE IF priceInfo.kind \in DOMAIN registry THEN registry[priceInfo.kind]
    ELSE IF priceInfo.kind = "sizable" THEN priceInfo.size
    ELSE IF priceInfo.kind = "chainlink" THEN
        5 * 32 + 15 + 8 + 8 + Len(priceInfo.id) + 8
    ELSE IF priceInfo.kind = "pyth" THEN
        Len(priceInfo.id) + 8 + Len(priceInfo.symbol) + 8 + 32 + 32 + 32 + 32 + 8 + 8 + 8 + 15 + 8
    ELSE 100

EstimatePriceInfoSize(priceInfo, registry) ==
    IF priceInfo = NilPriceInfo THEN 0
    ELSE IF priceInfo.kind = "sizable" THEN priceInfo.size
    ELSE IF priceInfo.kind \in DOMAIN registry THEN registry[priceInfo.kind]
    ELSE IF priceInfo.kind = "chainlink" THEN
        5 * 32 + 15 + 8 + 8 + Len(priceInfo.id) + 8
    ELSE IF priceInfo.kind = "pyth" THEN
        Len(priceInfo.id) + 8 + Len(priceInfo.symbol) + 8 + 32 + 32 + 32 + 32 + 8 + 8 + 8 + 15 + 8
    ELSE 100

\* a cache size that would not consult the registered estimators
estimateSizeUnlockedNoRegistry(d, f, registry) ==
    SumOver(DOMAIN d,
        [n \in DOMAIN d |->
            8 + SumOver(DOMAIN d[n],
                    [k \in DOMAIN d[n] |-> Len(k) + 8 + EstimatePriceInfoSize(d[n][k], EmptyMap)])])
    +
    SumOver(DOMAIN f,
        [n \in DOMAIN f |-> 8 + SumSeq([i \in 1..Len(f[n]) |-> Len(f[n][i]) + 8])])

estimateSizeUnlocked(d, f, registry) ==
    SumOver(DOMAIN d,
        [n \in DOMAIN d |->
            8 + SumOver(DOMAIN d[n],
                    [k \in DOMAIN d[n] |-> Len(k) + 8 + EstimatePriceInfoSize(d[n][k], registry)])])
    +
    SumOver(DOMAIN f,
        [n \in DOMAIN f |-> 8 + SumSeq([i \in 1..Len(f[n]) |-> Len(f[n][i]) + 8])])

GetCacheSize == estimateSizeUnlocked(data, feeds, customSizeEstimators)

----------------------------------------------------------------------------
(* Pruner                                                                  *)

PruneEntries(d, registry) ==
    UNION { { [networkID |-> n, prefixed |-> k, timestamp |-> d[n][k].ts,
               entrySize |-> Len(k) + 8 + EstimatePriceInfoSize(d[n][k], registry)]
              : k \in DOMAIN d[n] } : n \in DOMAIN d }

PruneTotalSize(d, registry) ==
    LET E == PruneEntries(d, registry)
    IN  SumOver(E, [e \in E |-> e.entrySize])

\* sort.Slice over a slice collected in map order: any arrangement of the
\* entries in which no entry comes before one with an earlier timestamp
SortedOrders(E) ==
    { o \in [1..Cardinality(E) -> E] :
        /\ \A i, j \in 1..Cardinality(E) : i # j => o[i] # o[j]
        /\ \A i, j \in 1..Cardinality(E) : i < j => ~(o[j].timestamp < o[i].timestamp) }

\* fmt.Sprintf("%d:%s", entry.networkID, entry.prefixed)
PruneKey(entry) == FormatUint(entry.networkID) \o <<":">> \o entry.prefixed

RECURSIVE LatestEntries(_, _, _)
LatestEntries(order, i, latest) ==
    IF i > Len(order) THEN latest
    ELSE LET entry == order[i]
             key == PruneKey(entry)
         IN  IF key \notin DOMAIN latest \/ entry.timestamp > latest[key].timestamp
             THEN LatestEntries(order, i + 1, MapPut(latest, key, entry))
             ELSE LatestEntries(order, i + 1, latest)

IsLatestEntryAfterOnly(entry, latest) ==
    entry.timestamp > latest.timestamp

\* the test that keeps an entry: it is the latest entry of its feed
IsLatestEntry(entry, latest) ==
    entry.timestamp = latest.timestamp \/ entry.timestamp > latest.timestamp

RECURSIVE PruneLoop(_, _, _, _, _, _)
PruneLoop(order, i, d, removedSize, totalSize, latest) ==
    IF i > Len(order) THEN d
    ELSE IF totalSize - removedSize <= MaxCacheSizeBytes THEN d
    ELSE LET entry == order[i]
         IN  IF IsLatestEntry(entry, latest[PruneKey(entry)])
             THEN PruneLoop(order, i + 1, d, removedSize, totalSize, latest)
             ELSE IF entry.networkID \in DOMAIN d
             THEN LET networkData == MapDel(d[entry.networkID], entry.prefixed)
                      d2 == IF DOMAIN networkData = {}
                            THEN MapDel(d, entry.networkID)
                            ELSE [d EXCEPT ![entry.networkID] = networkData]
                  IN  PruneLoop(order, i + 1, d2, removedSize + entry.entrySize, totalSize, latest)
             ELSE PruneLoop(order, i + 1, d, removedSize, totalSize, latest)

\* PriceCache.prune, for one order the sort may produce
prune(d, registry, order) ==
    LET totalSize == PruneTotalSize(d, registry)
    IN  IF totalSize <= MaxCacheSizeBytes THEN d
        ELSE PruneLoop(order, 1, d, 0, totalSize, LatestEntries(order, 1, EmptyMap))

----------------------------------------------------------------------------
(* Cache operations                                                        *)

\* the goroutines that call the cache
Callers == {1, 2}

NoRecord == [kind |-> "none"]

FeedsOf(f, n) == IF n \in DOMAIN f THEN f[n] ELSE <<>>

\* a membership test that never finds the feed
InSeqNever(s, x) == FALSE

InSeq(s, x) == \E i \in 1..Len(s) : s[i] = x

\* a read that would answer a missing key with a zero-valued record
GetPriceZeroValue(networkID, identifier, source) ==
    LET prefixed == makePrefixedIdentifier(source, identifier)
    IN  IF networkID \in DOMAIN data /\ prefixed \in DOMAIN data[networkID]
        THEN data[networkID][prefixed]
        ELSE [kind |-> "chainlink", id |-> identifier, symbol |-> <<>>, ts |-> 0, size |-> 0,
              answer |-> 0]

\* GetPrice: the record, or NoRecord for the error return
GetPrice(networkID, identifier, source) ==
    LET prefixed == makePrefixedIdentifier(source, identifier)
    IN  IF networkID \notin DOMAIN data THEN NoRecord
        ELSE IF prefixed \notin DOMAIN data[networkID] THEN NoRecord
        ELSE data[networkID][prefixed]

\* a listing that would go by the tracked-feed list, written or not
GetAllPricesOfTrackedFeeds(networkID) ==
    [prefixed \in { FeedsOf(feeds, networkID)[i] : i \in 1..Len(FeedsOf(feeds, networkID)) } |->
        IF networkID \in DOMAIN data /\ prefixed \in DOMAIN data[networkID]
        THEN data[networkID][prefixed] ELSE NoRecord]

\* GetAllPrices: a copy of the network's map, keyed by prefixed identifier
GetAllPrices(networkID) ==
    IF networkID \notin DOMAIN data THEN EmptyMap
    ELSE [prefixed \in DOMAIN data[networkID] |-> data[networkID][prefixed]]

\* a listing by source that would match the source's prefix anywhere in the key
GetAllPricesBySourceContains(networkID, source) ==
    IF networkID \notin DOMAIN data THEN EmptyMap
    ELSE LET prefix == source \o <<":">>
             matching == { k \in DOMAIN data[networkID] : Contains(k, prefix) }
         IN  [identifier \in { TrimPrefix(k, prefix) : k \in matching } |->
                 data[networkID][CHOOSE k \in matching : TrimPrefix(k, prefix) = identifier]]

\* GetAllPricesBySource: the records whose key begins with "<source>:", keyed
\* by the rest of the key
GetAllPricesBySource(networkID, source) ==
    IF networkID \notin DOMAIN data THEN EmptyMap
    ELSE LET prefix == source \o <<":">>
             matching == { k \in DOMAIN data[networkID] : HasPrefix(k, prefix) }
         IN  [identifier \in { TrimPrefix(k, prefix) : k \in matching } |->
                 data[networkID][CHOOSE k \in matching : TrimPrefix(k, prefix) = identifier]]

\* an upsert that would not track the feed
UpdatePriceFeedsUntracked(f, networkID, prefixed) == f

\* the writes of AddFeed on (data, feeds)
AddFeedData(d, networkID) ==
    IF networkID \notin DOMAIN d THEN MapPut(d, networkID, EmptyMap) ELSE d

AddFeedFeeds(d, f, networkID, prefixed) ==
    LET f1 == IF networkID \notin DOMAIN d THEN MapPut(f, networkID, <<>>) ELSE f
    IN  IF InSeq(FeedsOf(f1, networkID), prefixed) THEN f1
        ELSE MapPut(f1, networkID, Append(FeedsOf(f1, networkID), prefixed))

\* an upsert that would keep the stored record when it carries a later time
UpdatePriceDataKeepNewer(d, networkID, prefixed, priceInfo) ==
    LET d1 == IF networkID \notin DOMAIN d THEN MapPut(d, networkID, EmptyMap) ELSE d
    IN  IF prefixed \in DOMAIN d1[networkID] /\ d1[networkID][prefixed].ts > priceInfo.ts
        THEN d1
        ELSE [d1 EXCEPT ![networkID] = MapPut(d1[networkID], prefixed, priceInfo)]

\* the writes of UpdatePrice on (data, feeds), up to the size check
UpdatePriceData(d, networkID, prefixed, priceInfo) ==
    LET d1 == IF networkID \notin DOMAIN d THEN MapPut(d, networkID, EmptyMap) ELSE d
    IN  [d1 EXCEPT ![networkID] = MapPut(d1[networkID], prefixed, priceInfo)]

UpdatePriceFeeds(f, networkID, prefixed) ==
    IF InSeq(FeedsOf(f, networkID), prefixed) THEN f
    ELSE MapPut(f, networkID, Append(FeedsOf(f, networkID), prefixed))

NoArgs == [networkID |-> 0]

\* mu.Lock() returns: no writer and no reader holds the lock
CanLock == mu = 0 /\ readers = {}

\* mu.RLock() returns: no writer holds the lock
CanRLock == mu = 0

\* the holder of mu after UpdatePrice's size check: UpdatePrice unlocks before
\* it calls prune
MuKeptForPrune(p, size) == p

MuAfterSizeCheck(p, size) == IF size > MaxCacheSizeBytes THEN 0 ELSE p

AddFeed(p, networkID, identifier, source) ==
    /\ pc[p] = "idle" /\ CanLock /\ nOps < MaxOps
    /\ LET prefixed == makePrefixedIdentifier(source, identifier)
       IN  /\ data' = AddFeedData(data, networkID)
           /\ feeds' = AddFeedFeeds(data, feeds, networkID, prefixed)
           /\ noopAdds' = IF InSeq(FeedsOf(feeds, networkID), prefixed)
                           THEN noopAdds + 1 ELSE noopAdds
    /\ nOps' = nOps + 1
    /\ UNCHANGED <<mu, customSizeEstimators, pc, args, lastPut, pruned>>

\* the (network, prefixed) keys present in d and absent from d2
RemovedKeys(d, d2) ==
    { k \in UNION { {<<n, x>> : x \in DOMAIN d[n]} : n \in DOMAIN d } :
        k[1] \notin DOMAIN d2 \/ k[2] \notin DOMAIN d2[k[1]] }

\* UpdatePrice from its Lock to the size check: the lock stays held when
\* the size is within the cap, and is released for the call of prune when not
UpdatePrice(p, networkID, identifier, source, priceInfo) ==
    /\ pc[p] = "idle" /\ CanLock /\ nOps < MaxOps
    /\ LET prefixed == makePrefixedIdentifier(source, identifier)
           d2 == UpdatePriceData(data, networkID, prefixed, priceInfo)
           f2 == UpdatePriceFeeds(feeds, networkID, prefixed)
           size == estimateSizeUnlocked(d2, f2, customSizeEstimators)
       IN  /\ data' = d2
           /\ feeds' = f2
           /\ pruned' = pruned \ {<<networkID, prefixed>>}
           /\ mu' = MuAfterSizeCheck(p, size)
           /\ IF size > MaxCacheSizeBytes
              THEN pc' = [pc EXCEPT ![p] = "up_unlocked"]
              ELSE pc' = [pc EXCEPT ![p] = "up_locked"]
    /\ args' = [args EXCEPT ![p] =
            [networkID |-> networkID, identifier |-> identifier, source |-> source,
             priceInfo |-> priceInfo]]
    /\ lastPut' = [lastPut EXCEPT ![<<networkID, source, identifier>>] = priceInfo]
    /\ nOps' = nOps + 1
    /\ UNCHANGED <<customSizeEstimators, noopAdds>>

\* the call of prune inside UpdatePrice: Lock, prune, Unlock
UpdatePricePrune(p) ==
    /\ pc[p] = "up_unlocked" /\ CanLock
    /\ \E order \in SortedOrders(PruneEntries(data, customSizeEstimators)) :
           data' = prune(data, customSizeEstimators, order)
    /\ pruned' = pruned \cup RemovedKeys(data, data')
    /\ pc' = [pc EXCEPT ![p] = "up_pruned"]
    /\ UNCHANGED <<feeds, mu, customSizeEstimators, args, lastPut, noopAdds, nOps>>

\* the Lock that follows the call of prune
UpdatePriceRelock(p) ==
    /\ pc[p] = "up_pruned" /\ CanLock
    /\ mu' = p
    /\ pc' = [pc EXCEPT ![p] = "up_locked"]
    /\ UNCHANGED <<data, feeds, customSizeEstimators, args, lastPut, noopAdds, pruned, nOps>>

\* the deferred Unlock: UpdatePrice returns
UpdatePriceReturn(p) ==
    /\ pc[p] = "up_locked" /\ mu = p
    /\ mu' = 0
    /\ pc' = [pc EXCEPT ![p] = "idle"]
    /\ args' = [args EXCEPT ![p] = NoArgs]
    /\ UNCHANGED <<data, feeds, customSizeEstimators, lastPut, noopAdds, pruned, nOps>>

\* PriceCacheManager.PruneCache
PruneCache(p) ==
    /\ pc[p] = "idle" /\ CanLock /\ nOps < MaxOps
    /\ nOps' = nOps + 1
    /\ UNCHANGED <<feeds, mu, customSizeEstimators, pc, args, lastPut, noopAdds>>
    /\ \E order \in SortedOrders(PruneEntries(data, customSizeEstimators)) :
           data' = prune(data, customSizeEstimators, order)
    /\ pruned' = pruned \cup RemovedKeys(data, data')

\* RegisterSizeEstimator[T](estimator), the estimator returning z
RegisterSizeEstimator(kind, z) ==
    /\ nOps < MaxOps
    /\ customSizeEstimators' = MapPut(customSizeEstimators, kind, z)
    /\ nOps' = nOps + 1
    /\ UNCHANGED <<data, feeds, mu, pc, args, lastPut, noopAdds, pruned>>

\* the calls that hold mu for reading from their first line to their return
ReadOps == {"GetPrice", "GetAllPrices", "estimateSize", "PrintStatus"}

\* GetPrice, GetAllPrices, GetCacheSize (estimateSize) and the status
\* printing of CLPriceMonitor and PriceCacheManager: mu.RLock()
ReadCall(p, op) ==
    /\ pc[p] = "idle" /\ CanRLock /\ nOps < MaxOps
    /\ readers' = readers \cup {p}
    /\ pc' = [pc EXCEPT ![p] = op]
    /\ nOps' = nOps + 1
    /\ UNCHANGED <<data, feeds, mu, customSizeEstimators, args, lastPut, noopAdds, pruned>>

\* the read is over: mu.RUnlock()
ReadReturn(p) ==
    /\ pc[p] \in ReadOps
    /\ readers' = readers \ {p}
    /\ pc' = [pc EXCEPT ![p] = "idle"]
    /\ UNCHANGED <<data, feeds, mu, customSizeEstimators, args, lastPut, noopAdds, pruned, nOps>>

\* PriceMonitor.PrintStatus: the count of the feeds, read from cache.feeds
\* under the monitor's own lock
PrintStatusCount(p) ==
    /\ pc[p] = "idle" /\ nOps < MaxOps
    /\ pc' = [pc EXCEPT ![p] = "ps_count"]
    /\ nOps' = nOps + 1
    /\ UNCHANGED <<data, feeds, mu, customSizeEstimators, args, lastPut, noopAdds, pruned, readers>>

\* PriceMonitor.PrintStatus: the range over cache.feeds that lists the feeds
PrintStatusRange(p) ==
    /\ pc[p] = "ps_count"
    /\ pc' = [pc EXCEPT ![p] = "ps_range"]
    /\ UNCHANGED <<data, feeds, mu, customSizeEstimators, args, lastPut, noopAdds, pruned, nOps, readers>>

PrintStatusReturn(p) ==
    /\ pc[p] = "ps_range"
    /\ pc' = [pc EXCEPT ![p] = "idle"]
    /\ UNCHANGED <<data, feeds, mu, customSizeEstimators, args, lastPut, noopAdds, pruned, nOps, readers>>

InitCache ==
    /\ data = EmptyMap
    /\ feeds = EmptyMap
    /\ mu = 0
    /\ customSizeEstimators = EmptyMap
    /\ pc = [p \in Callers |-> "idle"]
    /\ args = [p \in Callers |-> NoArgs]
    /\ lastPut = [t \in Triples |-> NoRecord]
    /\ pruned = {}
    /\ nOps = 0
    /\ noopAdds = 0

NextCache ==
    \/ \E p \in Callers, t \in Triples : AddFeed(p, t[1], t[3], t[2])
    \/ \E p \in Callers, t \in Triples :
          \E v \in RecordsFor(t[2], t[3]) : UpdatePrice(p, t[1], t[3], t[2], v)
    \/ \E p \in Callers : UpdatePricePrune(p)
    \/ \E p \in Callers : UpdatePriceRelock(p)
    \/ \E p \in Callers : UpdatePriceReturn(p)
    \/ \E p \in Callers : PruneCache(p)
    \/ \E kind \in Kinds, z \in RegisteredSizes : RegisterSizeEstimator(kind, z)

----------------------------------------------------------------------------
(* Chainlink fetch with failover (chainlink.FetchPriceData)                *)

\* *ethclient.Client values; NilClient is the nil pointer
Clients == {"c1", "c2"}
NilClient == "nil"

\* the markers IsErrorCode32097 looks for
Marker32097Signed == <<"-","3","2","0","9","7">>
Marker32097 == <<"3","2","0","9","7">>
MarkerExecutionReverted == <<"e","x","e","c","u","t","i","o","n"," ","r","e","v","e","r","t","e","d">>
MarkerRevert == <<"r","e","v","e","r","t">>

\* errors the provider call (aggregator.LatestRoundData) returns
ErrExecutionReverted == <<"e","x","e","c","u","t","i","o","n"," ","r","e","v","e","r","t","e","d">>
ErrCode32097 == <<"c","o","d","e"," ","-","3","2","0","9","7">>
ErrTimeout == <<"t","i","m","e","o","u","t">>
UpstreamErrors == {ErrExecutionReverted, ErrCode32097, ErrTimeout}

\* errors an RPCSwitcher returns from SwitchRPCEndpointImmediately
ErrNoAlternative == <<"n","o"," ","a","l","t","e","r","n","a","t","i","v","e">>
SwitchErrors == {ErrNoAlternative}

NoError == <<>>

\* fmt.Errorf("failed to get latest round data: %v", err)
ErrLatestRoundData(err) == <<"f","a","i","l","e","d"," ","t","o"," ","g","e","t"," ","l","a","t","e","s","t"," ","r","o","u","n","d"," ","d","a","t","a",":"," ">> \o err

\* fmt.Errorf("client cannot be nil")
ErrClientNil == <<"c","l","i","e","n","t"," ","c","a","n","n","o","t"," ","b","e"," ","n","i","l">>

\* fmt.Errorf("feed address cannot be empty")
ErrFeedAddressEmpty == <<"f","e","e","d"," ","a","d","d","r","e","s","s"," ","c","a","n","n","o","t"," ","b","e"," ","e","m","p","t","y">>

\* fmt.Errorf("no client available for network %d", networkID)
ErrNoClient(networkID) == <<"n","o"," ","c","l","i","e","n","t"," ","a","v","a","i","l","a","b","l","e"," ","f","o","r"," ","n","e","t","w","o","r","k"," ">> \o FormatUint(networkID)

\* fmt.Errorf("no client available for network ID %d", networkID)
ErrNoClientUse(networkID) == <<"n","o"," ","c","l","i","e","n","t"," ","a","v","a","i","l","a","b","l","e"," ","f","o","r"," ","n","e","t","w","o","r","k"," ","I","D"," ">> \o FormatUint(networkID)

IsErrorCode32097(err) ==
    /\ err # NoError
    /\ \/ Contains(err, Marker32097Signed)
       \/ Contains(err, Marker32097)
       \/ Contains(err, MarkerExecutionReverted)
       \/ Contains(err, MarkerRevert)

DefaultMaxRetries == 1
DefaultRetryDelay == 2

\* the condition under which fetchPriceDataWithRetry switches and retries
ShouldRetryOneMore(err, rpcSwitcher, attempt, maxRetries) ==
    IsErrorCode32097(err) /\ rpcSwitcher /\ attempt <= maxRetries + 1

ShouldRetryAnyError(err, rpcSwitcher, attempt, maxRetries) ==
    rpcSwitcher /\ attempt <= maxRetries

ShouldRetry(err, rpcSwitcher, attempt, maxRetries) ==
    IsErrorCode32097(err) /\ rpcSwitcher /\ attempt <= maxRetries

\* the answers a provider response carries, and the times time.Now() gives
\* when a response is turned into a record
FetchAnswers == {1, 2}
FetchTimes == {2}

\* the *types.ChainlinkPrice built from a round
ChainlinkPrice(feedAddress, answer, now) ==
    [kind |-> "chainlink", id |-> feedAddress, symbol |-> <<>>, ts |-> now,
     size |-> 0, answer |-> answer]

\* the feeds the monitor's cache tracks: a Chainlink feed, a feed another
\* source registered in the shared cache, the key a fetch of that feed
\* writes, and a feed on a second network
CycleTripleSeq ==
    << <<1, SourceChainlink, <<"a">>>>,
       <<1, SourcePyth, <<"a">>>>,
       <<2, SourceChainlink, <<"a">>>>,
       <<1, SourceChainlink, <<"p","y","t","h",":","a">>>> >>

\* one goroutine of updateAllPrices per (network, prefixed feed)
GoroutineIds ==
    { <<CycleTripleSeq[i][1], makePrefixedIdentifier(CycleTripleSeq[i][2], CycleTripleSeq[i][3])>>
        : i \in 1..Len(CycleTripleSeq) }

\* the caller of the README's integration example
Example == <<0, <<>>>>

\* a caller of fetchPriceData outside a cycle
Direct == <<0, <<"d">>>>

Procs == GoroutineIds \cup {Example, Direct}

NoCall ==
    [st |-> "none", networkID |-> 0, feedAddress |-> <<>>, client |-> NilClient,
     rpcSwitcher |-> FALSE, maxRetries |-> 0, optMaxRetries |-> 0, retryDelay |-> 0,
     attempt |-> 0, err |-> NoError, ret |-> NoError, value |-> NoRecord,
     outcomes |-> <<>>, switches |-> 0, switchFailed |-> FALSE,
     before |-> <<NoRecord, NoRecord>>, wrote |-> FALSE, fetches |-> 0,
     newClient |-> NilClient, waited |-> 0]

\* the record stored under (networkID, prefixed), NoRecord when there is none
KeyContent(d, networkID, prefixed) ==
    IF networkID \in DOMAIN d /\ prefixed \in DOMAIN d[networkID]
    THEN d[networkID][prefixed] ELSE NoRecord

\* the key the caller of a fetch stores the result under
WriteKey(feedAddress) == makePrefixedIdentifier(SourceChainlink, feedAddress)

\* FetchPriceData up to its call of fetchPriceDataWithRetry(opts, 1);
\* c carries the options and the history fields of the call
FetchPriceData(c) ==
    IF c.client = NilClient THEN [c EXCEPT !.st = "returned", !.ret = ErrClientNil]
    ELSE IF c.feedAddress = <<>> THEN [c EXCEPT !.st = "returned", !.ret = ErrFeedAddressEmpty]
    ELSE [c EXCEPT !.st = "attempt",
                   !.maxRetries = IF c.optMaxRetries = 0 THEN DefaultMaxRetries ELSE c.optMaxRetries,
                   !.retryDelay = IF c.retryDelay = 0 THEN DefaultRetryDelay ELSE c.retryDelay,
                   !.attempt = 1]

\* what aggregator.LatestRoundData answers: a round, or an error
ProviderOutcomes ==
    { [err |-> NoError, answer |-> a] : a \in FetchAnswers }
    \cup { [err |-> e, answer |-> 0] : e \in UpstreamErrors }

\* fetchPriceDataWithRetry from its entry to the return or to the call of
\* the switcher: the provider call and the decision on its error
LatestRoundData(p) ==
    /\ call[p].st = "attempt"
    /\ \E out \in ProviderOutcomes, now \in FetchTimes :
          LET c == [call[p] EXCEPT !.outcomes = Append(@, out)]
          IN  call' = [call EXCEPT ![p] =
                IF out.err = NoError
                THEN [c EXCEPT !.st = "returned", !.ret = NoError,
                               !.value = ChainlinkPrice(c.feedAddress, out.answer, now)]
                ELSE IF ShouldRetry(out.err, c.rpcSwitcher, c.attempt, c.maxRetries)
                THEN [c EXCEPT !.st = "switch", !.err = out.err]
                ELSE [c EXCEPT !.st = "returned", !.err = out.err,
                               !.ret = ErrLatestRoundData(out.err)]]
    /\ UNCHANGED <<cacheVars, clients, networkConfig, ClientUse, cycle, snapClients, snapFeeds, semaphore>>

\* opts.RPCSwitcher.SwitchRPCEndpointImmediately(opts.NetworkID): an error, or
\* nil with the table entry of the network left as it was or replaced; on an
\* error the inner err shadows the provider's, and it is the one wrapped
SwitchRPCEndpointImmediately(p) ==
    /\ call[p].st = "switch"
    /\ LET c == [call[p] EXCEPT !.switches = @ + 1]
       IN  \/ \E e \in SwitchErrors :
                /\ call' = [call EXCEPT ![p] =
                      [c EXCEPT !.st = "returned", !.switchFailed = TRUE,
                                !.ret = ErrLatestRoundData(e)]]
                /\ UNCHANGED ClientUse
           \/ /\ call' = [call EXCEPT ![p] = [c EXCEPT !.st = "getclient"]]
              /\ \/ UNCHANGED ClientUse
                 \/ \E cl \in Clients : ClientUse' = MapPut(ClientUse, c.networkID, cl)
    /\ UNCHANGED <<cacheVars, clients, networkConfig, cycle, snapClients, snapFeeds, semaphore>>

\* opts.RPCSwitcher.GetBestClient(opts.NetworkID): the entry of the table, held
\* in newClient; the monitor's adapter also stores it in CLPriceMonitor.clients
GetBestClient(p) ==
    /\ call[p].st = "getclient"
    /\ LET c == call[p]
       IN  IF c.networkID \notin DOMAIN ClientUse
           THEN /\ call' = [call EXCEPT ![p] =
                      [c EXCEPT !.st = "returned", !.switchFailed = TRUE,
                                !.ret = ErrLatestRoundData(ErrNoClientUse(c.networkID))]]
                /\ UNCHANGED clients
           ELSE /\ call' = [call EXCEPT ![p] =
                      [c EXCEPT !.st = "sleep", !.newClient = ClientUse[c.networkID]]]
                /\ clients' = IF p \in GoroutineIds
                              THEN MapPut(clients, c.networkID, ClientUse[c.networkID])
                              ELSE clients
    /\ UNCHANGED <<cacheVars, networkConfig, ClientUse, cycle, snapClients, snapFeeds, semaphore>>

\* a retry that would be made with the client of the failed attempt
RetryClientStale(c) == c.client

\* opts.Client = newClient
RetryClient(c) == c.newClient

\* time.Sleep(opts.RetryDelay), then the replacement of opts.Client and the
\* recursive call with attempt + 1; waited is the time slept so far
SleepAndRetry(p) ==
    /\ call[p].st = "sleep"
    /\ call' = [call EXCEPT ![p] =
          [call[p] EXCEPT !.st = "attempt", !.waited = @ + call[p].retryDelay,
                          !.client = RetryClient(call[p]), !.newClient = NilClient,
                          !.attempt = @ + 1]]
    /\ UNCHANGED <<cacheVars, clients, networkConfig, ClientUse, cycle, snapClients, snapFeeds, semaphore>>

\* one whole UpdatePrice call on the cache: the write, the tracking of the
\* feed, the size check and the pruner
UpdatePriceCall(networkID, identifier, source, priceInfo) ==
    /\ mu = 0
    /\ LET prefixed == makePrefixedIdentifier(source, identifier)
           d2 == UpdatePriceData(data, networkID, prefixed, priceInfo)
           f2 == UpdatePriceFeeds(feeds, networkID, prefixed)
           size == estimateSizeUnlocked(d2, f2, customSizeEstimators)
       IN  /\ feeds' = f2
           /\ IF size > MaxCacheSizeBytes
              THEN \E order \in SortedOrders(PruneEntries(d2, customSizeEstimators)) :
                      data' = prune(d2, customSizeEstimators, order)
              ELSE data' = d2
           /\ pruned' = (pruned \ {<<networkID, prefixed>>}) \cup RemovedKeys(d2, data')
    /\ lastPut' = [lastPut EXCEPT ![<<networkID, source, identifier>>] = priceInfo]
    /\ UNCHANGED <<mu, customSizeEstimators, pc, args, nOps, noopAdds>>

\* the caller's test of the error FetchPriceData returned
FetchSucceededAlways(c) == TRUE

FetchSucceeded(c) == c.ret = NoError

----------------------------------------------------------------------------
(* The README's integration example: fetch, then store in the cache        *)

ExampleNetworks == {1}
ExampleFeedAddresses == {<<>>, <<"a">>}

\* the RetryDelay a caller passes, in seconds: unset, or its own
RetryDelays == {0, 5}

ExampleFetch ==
    /\ call[Example].st = "none"
    /\ \E n \in ExampleNetworks, fa \in ExampleFeedAddresses,
          cl \in Clients \cup {NilClient}, sw \in BOOLEAN, mr \in 0..MaxRetriesBound,
          rd \in RetryDelays :
          call' = [call EXCEPT ![Example] =
              FetchPriceData([NoCall EXCEPT
                  !.networkID = n, !.feedAddress = fa, !.client = cl,
                  !.rpcSwitcher = sw, !.optMaxRetries = mr, !.retryDelay = rd,
                  !.fetches = 1,
                  !.before = <<KeyContent(data, n, WriteKey(fa)),
                               KeyContent(data, n, WriteKey(fa))>>])]
    /\ UNCHANGED <<cacheVars, clients, networkConfig, ClientUse, cycle, snapClients, snapFeeds, semaphore>>

\* if err != nil { log.Fatal(err) }
ExampleFailed ==
    /\ call[Example].st = "returned" /\ ~FetchSucceeded(call[Example])
    /\ call' = [call EXCEPT ![Example].st = "done"]
    /\ UNCHANGED <<cacheVars, clients, networkConfig, ClientUse, cycle, snapClients, snapFeeds, semaphore>>

\* cacheManager.UpdatePrice(networkID, feedAddress, types.SourceChainlink, priceData)
ExampleStore ==
    /\ call[Example].st = "returned" /\ FetchSucceeded(call[Example])
    /\ UpdatePriceCall(call[Example].networkID, call[Example].feedAddress,
                       SourceChainlink, call[Example].value)
    /\ call' = [call EXCEPT ![Example].st = "done", ![Example].wrote = TRUE]
    /\ UNCHANGED <<clients, networkConfig, ClientUse, cycle, snapClients, snapFeeds, semaphore>>

----------------------------------------------------------------------------
(* The orchestrator cycle (CLPriceMonitor.updateAllPrices)                 *)

SemaphoreCapacity == 10

\* semaphore <- struct{}{} goes through when the channel's buffer has room
SemaphoreUnbounded(tokens) == TRUE

SemaphoreHasRoom(tokens) == tokens < SemaphoreCapacity

\* a cycle that starts a goroutine for the feeds of every network
ClientExistsAlways(clientsCopy, networkID) == TRUE

\* _, exists := clients[networkID] on the copy of pm.clients
ClientExists(clientsCopy, networkID) == networkID \in DOMAIN clientsCopy

\* fetchPriceData(networkID, feedAddress): the error when pm.clients has no
\* entry for the network, else the call of chainlink.FetchPriceData with the
\* client, the switcher adapter, MaxRetries 1 and RetryDelay 2 s
fetchPriceData(c) ==
    IF c.networkID \notin DOMAIN clients
    THEN [c EXCEPT !.st = "returned", !.ret = ErrNoClient(c.networkID)]
    ELSE FetchPriceData([c EXCEPT
            !.client = clients[c.networkID], !.rpcSwitcher = networkConfig,
            !.optMaxRetries = 1, !.retryDelay = 2])

\* the snapshots of clients and feeds, and one goroutine started per feed
\* of every network that has a client
updateAllPrices ==
    /\ cycle = "idle" /\ mu = 0
    /\ cycle' = "running"
    /\ snapClients' = clients
    /\ snapFeeds' = feeds
    /\ semaphore' = 0
    /\ call' = [p \in Procs |->
          IF /\ p \in GoroutineIds
             /\ p[1] \in DOMAIN feeds
             /\ InSeq(feeds[p[1]], p[2])
             /\ ClientExists(clients, p[1])
          THEN [NoCall EXCEPT !.st = "waiting"]
          ELSE call[p]]
    /\ UNCHANGED <<cacheVars, clients, networkConfig, ClientUse>>

\* a goroutine acquires the semaphore, strips the Chainlink prefix and
\* calls fetchPriceData, which reads the client and calls FetchPriceData
goFetch(p) ==
    /\ cycle = "running" /\ call[p].st = "waiting"
    /\ SemaphoreHasRoom(semaphore)
    /\ semaphore' = semaphore + 1
    /\ LET netID == p[1]
           feedAddress == TrimPrefix(p[2], SourceChainlink \o <<":">>)
           c == [NoCall EXCEPT
                   !.networkID = netID, !.feedAddress = feedAddress,
                   !.fetches = call[p].fetches + 1,
                   !.before = <<KeyContent(data, netID, p[2]),
                                KeyContent(data, netID, WriteKey(feedAddress))>>]
       IN  call' = [call EXCEPT ![p] = fetchPriceData(c)]
    /\ UNCHANGED <<cacheVars, clients, networkConfig, ClientUse, cycle, snapClients, snapFeeds>>

\* a failure that ends the whole batch
goFailedEndsCycle(p) ==
    /\ call[p].st = "returned" /\ ~FetchSucceeded(call[p])
    /\ call' = [call EXCEPT ![p].st = "done"]
    /\ semaphore' = semaphore - 1
    /\ cycle' = "done"
    /\ UNCHANGED <<cacheVars, clients, networkConfig, ClientUse, snapClients, snapFeeds>>

\* if err != nil { log.Printf(...); return }, with the deferred release
goFailed(p) ==
    /\ call[p].st = "returned" /\ ~FetchSucceeded(call[p])
    /\ call' = [call EXCEPT ![p].st = "done"]
    /\ semaphore' = semaphore - 1
    /\ UNCHANGED <<cacheVars, clients, networkConfig, ClientUse, cycle, snapClients, snapFeeds>>

\* pm.cacheManager.UpdatePrice(netID, feedAddress, types.SourceChainlink, priceData),
\* with the deferred release
goStore(p) ==
    /\ call[p].st = "returned" /\ FetchSucceeded(call[p])
    /\ UpdatePriceCall(call[p].networkID, call[p].feedAddress, SourceChainlink, call[p].value)
    /\ call' = [call EXCEPT ![p].st = "done", ![p].wrote = TRUE]
    /\ semaphore' = semaphore - 1
    /\ UNCHANGED <<clients, networkConfig, ClientUse, cycle, snapClients, snapFeeds>>

\* an updateAllPrices that returns without waiting for its goroutines
WaitGroupDoneAlways == TRUE

\* wg.Wait() returns: every goroutine has called wg.Done()
WaitGroupDone == \A p \in GoroutineIds : call[p].st \in {"none", "done"}

\* wg.Wait() returns once every goroutine has ended
updateAllPricesWait ==
    /\ cycle = "running"
    /\ WaitGroupDone
    /\ cycle' = "done"
    /\ UNCHANGED <<cacheVars, clients, networkConfig, ClientUse, call, snapClients, snapFeeds, semaphore>>

\* the feed addresses of the direct calls
DirectFeeds == {<<"a">>}

\* pm.fetchPriceData(networkID, feedAddress) called on its own
directFetch(networkID, feedAddress) ==
    /\ call[Direct].st = "none"
    /\ call' = [call EXCEPT ![Direct] =
          fetchPriceData([NoCall EXCEPT
              !.networkID = networkID, !.feedAddress = feedAddress, !.fetches = 1,
              !.before = <<KeyContent(data, networkID, WriteKey(feedAddress)),
                           KeyContent(data, networkID, WriteKey(feedAddress))>>])]
    /\ UNCHANGED <<cacheVars, clients, networkConfig, ClientUse, cycle, snapClients, snapFeeds,
                   semaphore>>

\* the caller has taken the value or the error
directReturn ==
    /\ call[Direct].st = "returned"
    /\ call' = [call EXCEPT ![Direct] = NoCall]
    /\ UNCHANGED <<cacheVars, clients, networkConfig, ClientUse, cycle, snapClients, snapFeeds,
                   semaphore>>

----------------------------------------------------------------------------
(* Endpoint probing and latency selection (rpcscan/rpcswitcher.go)         *)

\* netconf.Networks: one network with three endpoints, one with a single
\* endpoint, and one whose NetworkID does not parse
ProbeNetworks ==
    << [NetworkID |-> <<"1">>, Endpoints |-> <<"e1", "e2", "e3">>],
       [NetworkID |-> <<"2">>, Endpoints |-> <<"e4">>],
       [NetworkID |-> <<"x">>, Endpoints |-> <<"e5">>] >>

ProbeIds ==
    { <<k, i>> : k \in 1..Len(ProbeNetworks), i \in 1..3 } \cap
    UNION { { <<k, i>> : i \in 1..Len(ProbeNetworks[k].Endpoints) } : k \in 1..Len(ProbeNetworks) }

DigitValue(ch) ==
    CASE ch = "0" -> 0 [] ch = "1" -> 1 [] ch = "2" -> 2 [] ch = "3" -> 3 [] ch = "4" -> 4
      [] ch = "5" -> 5 [] ch = "6" -> 6 [] ch = "7" -> 7 [] ch = "8" -> 8 [] ch = "9" -> 9
      [] OTHER -> -1

\* strconv.ParseUint(s, 10, 64): the value, or -1 for the error
RECURSIVE ParseUintFrom(_, _, _)
ParseUintFrom(s, i, acc) ==
    IF i > Len(s) THEN acc
    ELSE IF DigitValue(s[i]) < 0 THEN -1
    ELSE ParseUintFrom(s, i + 1, acc * 10 + DigitValue(s[i]))

ParseUint(s) == IF s = <<>> THEN -1 ELSE ParseUintFrom(s, 1, 0)

\* durations are in milliseconds
ProbeTimeout == 5000

\* time.Duration(1<<63 - 1), as the largest integer the checker represents
MaxDuration == 2147483647

\* what a probe meets: the dial and the call succeed or fail, after a time
ProbeOutcomes ==
    { [dial |-> TRUE, call |-> TRUE, elapsed |-> 45],
      [dial |-> TRUE, call |-> TRUE, elapsed |-> 120],
      [dial |-> FALSE, call |-> FALSE, elapsed |-> 10],
      [dial |-> TRUE, call |-> FALSE, elapsed |-> 10],
      [dial |-> TRUE, call |-> TRUE, elapsed |-> 6000],
      \* the endpoint never responds: checkLatencyCon does not return
      [dial |-> TRUE, call |-> TRUE, elapsed |-> MaxDuration] }

\* the latency of the LatencyConcurrentBox checkLatencyCon returns
checkLatencyCon(outcome) ==
    IF ~outcome.dial THEN 0
    ELSE IF ~outcome.call THEN 0
    ELSE outcome.elapsed

\* the test of the selection loop on a received result
IsBetterAnyLatency(result, best) == result.latency < best

IsBetter(result, best) == result.latency > 0 /\ result.latency < best

Pending == -1

\* what the ctx.Done() case sends on latencyChan: one failed result
TimedOutSendsNothing(ep, networkID) == <<>>

TimedOutResult(ep, networkID) ==
    << [endpoint |-> ep, latency |-> 0, networkId |-> networkID] >>

\* the test that guards the store into bestEndpoints
HasBestEndpointAlways(best) == TRUE

HasBestEndpoint(best) == best # ""

InitProbeIdle ==
    /\ probeCycle = "idle"
    /\ netPhase = [k \in 1..Len(ProbeNetworks) |-> "none"]
    /\ probed = [e \in ProbeIds |-> Pending]
    /\ latencyChan = [k \in 1..Len(ProbeNetworks) |-> <<>>]
    /\ chanClosed = [k \in 1..Len(ProbeNetworks) |-> FALSE]
    /\ bestEndpoint = [k \in 1..Len(ProbeNetworks) |-> ""]
    /\ bestLatency = [k \in 1..Len(ProbeNetworks) |-> MaxDuration]
    /\ bestEndpoints = EmptyMap

nonProbeVars ==
    <<cacheVars, clients, networkConfig, call, cycle, snapClients, snapFeeds, semaphore, fanout,
      auxVars>>

\* the tick: getBestRPCEndpointsParallel starts one goroutine per network;
\* a goroutine whose NetworkID does not parse returns at once
getBestRPCEndpointsParallel ==
    /\ probeCycle = "idle"
    /\ probeCycle' = "probing"
    /\ netPhase' = [k \in 1..Len(ProbeNetworks) |->
          IF ParseUint(ProbeNetworks[k].NetworkID) < 0 THEN "ended" ELSE "selecting"]
    /\ UNCHANGED <<probed, latencyChan, chanClosed, bestEndpoint, bestLatency, bestEndpoints,
                   ClientUse, nonProbeVars>>

\* the deprecated getBestRPCEndpoints: one network after the other
networkGoroutineRunsInTurn(k) ==
    /\ netPhase[k] = "selecting"
    /\ \A j \in 1..(k - 1) : netPhase[j] = "ended"

\* go func(network RPCConfig): every network has a goroutine of its own,
\* which runs from the tick until it has stored its best endpoint
networkGoroutineRuns(k) == netPhase[k] = "selecting"

\* one endpoint's goroutine: the result of checkLatencyCon, or the failed
\* result when the timeout comes first, sent on latencyChan
probeEndpoint(k, i) ==
    /\ networkGoroutineRuns(k)
    /\ probed[<<k, i>>] = Pending
    /\ \E outcome \in ProbeOutcomes :
          LET ep == ProbeNetworks[k].Endpoints[i]
              networkID == ParseUint(ProbeNetworks[k].NetworkID)
              latency == IF outcome.elapsed >= ProbeTimeout THEN 0
                         ELSE checkLatencyCon(outcome)
              sent == IF outcome.elapsed >= ProbeTimeout
                      THEN TimedOutResult(ep, networkID)
                      ELSE << [endpoint |-> ep, latency |-> latency,
                               networkId |-> networkID] >>
          IN  /\ latencyChan' = [latencyChan EXCEPT ![k] = @ \o sent]
              /\ probed' = [probed EXCEPT ![<<k, i>>] = latency]
    /\ UNCHANGED <<probeCycle, netPhase, chanClosed, bestEndpoint, bestLatency, bestEndpoints,
                   ClientUse, nonProbeVars>>

\* endpointWg.Wait(); close(latencyChan)
closeLatencyChan(k) ==
    /\ networkGoroutineRuns(k)
    /\ ~chanClosed[k]
    /\ \A i \in 1..Len(ProbeNetworks[k].Endpoints) : probed[<<k, i>>] # Pending
    /\ chanClosed' = [chanClosed EXCEPT ![k] = TRUE]
    /\ UNCHANGED <<probeCycle, netPhase, probed, latencyChan, bestEndpoint, bestLatency,
                   bestEndpoints, ClientUse, nonProbeVars>>

\* one iteration of for result := range latencyChan
receiveResult(k) ==
    /\ networkGoroutineRuns(k)
    /\ latencyChan[k] # <<>>
    /\ LET result == Head(latencyChan[k])
       IN  IF IsBetter(result, bestLatency[k])
           THEN /\ bestLatency' = [bestLatency EXCEPT ![k] = result.latency]
                /\ bestEndpoint' = [bestEndpoint EXCEPT ![k] = result.endpoint]
           ELSE UNCHANGED <<bestLatency, bestEndpoint>>
    /\ latencyChan' = [latencyChan EXCEPT ![k] = Tail(@)]
    /\ UNCHANGED <<probeCycle, netPhase, probed, chanClosed, bestEndpoints, ClientUse,
                   nonProbeVars>>

\* the loop ends on the closed, drained channel; the best endpoint, if
\* any, is stored in bestEndpoints
storeBestEndpoint(k) ==
    /\ networkGoroutineRuns(k)
    /\ latencyChan[k] = <<>> /\ chanClosed[k]
    /\ bestEndpoints' =
          IF HasBestEndpoint(bestEndpoint[k])
          THEN MapPut(bestEndpoints, ParseUint(ProbeNetworks[k].NetworkID), bestEndpoint[k])
          ELSE bestEndpoints
    /\ netPhase' = [netPhase EXCEPT ![k] = "ended"]
    /\ UNCHANGED <<probeCycle, probed, latencyChan, chanClosed, bestEndpoint, bestLatency,
                   ClientUse, nonProbeVars>>

\* wg.Wait() returns, and MonitorAllRPCEndpoints stores a client for every
\* best endpoint for which NewEthereumClient succeeds
MonitorAllRPCEndpoints ==
    /\ probeCycle = "probing"
    /\ \A k \in 1..Len(ProbeNetworks) : netPhase[k] = "ended"
    /\ \E created \in SUBSET (DOMAIN bestEndpoints) :
          ClientUse' = [n \in (DOMAIN ClientUse) \cup created |->
                          IF n \in created THEN bestEndpoints[n] ELSE ClientUse[n]]
    /\ probeCycle' = "updated"
    /\ UNCHANGED <<netPhase, probed, latencyChan, chanClosed, bestEndpoint, bestLatency,
                   bestEndpoints, nonProbeVars>>

----------------------------------------------------------------------------
(* Specifications                                                          *)

InitFanoutIdle == fanout = [g \in 1..FanoutFeeds |-> "none"]

\* the callers of GetBestClient
Getters == {1, 2}

\* the periodic loops: CLPriceMonitor.Start and MonitorAllRPCEndpoints
Loops == {"fetch", "probe"}

NoGet == [st |-> "idle", networkID |-> 0]

NoPublish == [st |-> "idle", networkID |-> 0, endpoint |-> "", todo |-> {}]

InitTableIdle ==
    /\ netconfMu = 0
    /\ publish = NoPublish
    /\ getters = [g \in Getters |-> NoGet]
    /\ tableOps = 0

InitLoopsIdle ==
    /\ stopChan = [l \in Loops |-> FALSE]
    /\ loopPc = [l \in Loops |-> "none"]
    /\ tickPending = [l \in Loops |-> FALSE]
    /\ ticks = 0

\* the callers of RegisterSizeEstimator and EstimatePriceInfoSize
SizeCallers == {1, 2}

NoEstimator == -1

NoSizing ==
    [pc |-> "idle", kind |-> "", z |-> 0, priceInfo |-> NilPriceInfo, estimator |-> NoEstimator,
     result |-> 0, atCall |-> EmptyMap, since |-> {}, raced |-> FALSE]

InitRegistryIdle ==
    /\ customEstimatorsMu = 0
    /\ estimatorReaders = {}
    /\ sizing = [p \in SizeCallers |-> NoSizing]
    /\ sizeOps = 0

\* the maps a caller may hold
Listings == {"prices", "clients"}

NoHandle ==
    [fn |-> "none", networkID |-> 0, source |-> <<>>, aliased |-> FALSE, content |-> EmptyMap,
     atReturn |-> EmptyMap, expected |-> EmptyMap, written |-> FALSE]

\* pyth.DefaultHTTPRetries
DefaultHTTPRetries == 3

NoRequest ==
    [st |-> "idle", httpRetries |-> DefaultHTTPRetries, attempt |-> 0, backoff |-> 0,
     lastErr |-> <<>>, ret |-> <<>>, outcomes |-> <<>>, slept |-> 0]

\* the goroutines a WebSocket client can have at a time
WSProcIds == 1..(MaxDials + 1)

NoProc == [kind |-> "none", pc |-> "none", conn |-> 0, seen |-> 0]

\* a client as NewWebSocketClient returns it: conn 0 stands for nil
NewWebSocketClient(maxReconnects) ==
    [conn |-> 0, connected |-> FALSE, reconnectCount |-> 0, maxReconnects |-> maxReconnects,
     cancelled |-> FALSE, started |-> "no", disconnect |-> "no", dials |-> 0, failedSince |-> 0,
     lastDial |-> "none"]

InitWSIdle ==
    /\ ws = NewWebSocketClient(MaxReconnects)
    /\ wsProcs = [g \in WSProcIds |-> NoProc]

InitPythIdle == hermes = NoRequest /\ InitWSIdle /\ panicked = ""

InitCopiesIdle == returned = [l \in Listings |-> NoHandle] /\ InitPythIdle

InitAuxIdle ==
    readers = {} /\ InitTableIdle /\ InitLoopsIdle /\ InitRegistryIdle /\ InitCopiesIdle

\* The endpoint table: NetworkConfiguration.ClientUse under NetworkConfiguration.mu

\* the map getBestRPCEndpointsParallel has returned to MonitorAllRPCEndpoints
SelectedEndpoints == { <<1, "e2">>, <<2, "e4">> }

tableRest ==
    <<cacheVars, clients, networkConfig, call, cycle, snapClients, snapFeeds, semaphore,
      fanout, probeVars, readers, stopChan, loopPc, tickPending, ticks, registryVars, returned, pythVars, panicked>>

\* the next entry of the range: NewEthereumClient succeeded, and the loop
\* is about to take netconf.mu.Lock()
publishClient(e) ==
    /\ publish.st = "idle" /\ e \in publish.todo
    /\ publish' = [st |-> "waiting", networkID |-> e[1], endpoint |-> e[2],
                   todo |-> publish.todo \ {e}]
    /\ UNCHANGED <<netconfMu, getters, tableOps, ClientUse, tableRest>>

\* the next entry of the range: NewEthereumClient failed, continue
publishSkip(e) ==
    /\ publish.st = "idle" /\ e \in publish.todo
    /\ publish' = [publish EXCEPT !.todo = @ \ {e}]
    /\ UNCHANGED <<netconfMu, getters, tableOps, ClientUse, tableRest>>

\* netconf.mu.Lock() returns and the entry is written
publishLock ==
    /\ publish.st = "waiting"
    /\ netconfMu = 0 /\ \A g \in Getters : getters[g].st # "reading"
    /\ netconfMu' = publish.networkID
    /\ ClientUse' = MapPut(ClientUse, publish.networkID, publish.endpoint)
    /\ publish' = [publish EXCEPT !.st = "locked"]
    /\ UNCHANGED <<getters, tableOps, tableRest>>

\* netconf.mu.Unlock()
publishUnlock ==
    /\ publish.st = "locked"
    /\ netconfMu' = 0
    /\ publish' = [publish EXCEPT !.st = "idle", !.networkID = 0, !.endpoint = ""]
    /\ UNCHANGED <<getters, tableOps, ClientUse, tableRest>>

\* a caller enters GetBestClient(networkID) and asks for netconf.mu.RLock()
getBestClientCall(g, networkID) ==
    /\ getters[g].st = "idle" /\ tableOps < MaxTableOps
    /\ getters' = [getters EXCEPT ![g] = [st |-> "waiting", networkID |-> networkID]]
    /\ tableOps' = tableOps + 1
    /\ UNCHANGED <<netconfMu, publish, ClientUse, tableRest>>

\* netconf.mu.RLock() returns
getBestClientRLock(g) ==
    /\ getters[g].st = "waiting"
    /\ netconfMu = 0
    /\ getters' = [getters EXCEPT ![g].st = "reading"]
    /\ UNCHANGED <<netconfMu, publish, tableOps, ClientUse, tableRest>>

\* the entry is read and the deferred RUnlock runs
getBestClientReturn(g) ==
    /\ getters[g].st = "reading"
    /\ getters' = [getters EXCEPT ![g] = NoGet]
    /\ UNCHANGED <<netconfMu, publish, tableOps, ClientUse, tableRest>>

InitFetchIdle ==
    /\ clients = EmptyMap
    /\ networkConfig = FALSE
    /\ ClientUse = EmptyMap
    /\ call = [p \in Procs |-> NoCall]
    /\ cycle = "idle"
    /\ snapClients = EmptyMap
    /\ snapFeeds = EmptyMap
    /\ semaphore = 0

\* the cache alone, under concurrent callers
Init == InitCache /\ InitFetchIdle /\ InitFanoutIdle /\ InitProbeIdle /\ InitAuxIdle

Next == NextCache /\ UNCHANGED <<fetchVars, fanout, probeVars, auxVars>>

Spec == Init /\ [][Next]_vars

\* the cache under concurrent writers, readers and status printing
NextLock ==
    /\ \/ NextCache /\ UNCHANGED readers
       \/ \E p \in Callers, op \in ReadOps : ReadCall(p, op)
       \/ \E p \in Callers : ReadReturn(p)
       \/ \E p \in Callers : PrintStatusCount(p)
       \/ \E p \in Callers : PrintStatusRange(p)
       \/ \E p \in Callers : PrintStatusReturn(p)
    /\ UNCHANGED <<fetchVars, fanout, probeVars>>
    /\ UNCHANGED <<netconfMu, publish, getters, tableOps, stopChan, loopPc, tickPending, ticks,
                   registryVars, returned, pythVars, panicked>>

SpecLock == Init /\ [][NextLock]_vars

\* a call that can take its next step takes it
SpecLockFair == SpecLock /\ WF_vars(NextLock)

\* the tables a switcher starts from
InitialClientUse == {EmptyMap, [n \in Networks |-> "c2"]}

\* one caller of FetchPriceData that stores what it fetched
InitFetch ==
    /\ InitCache
    /\ clients = EmptyMap
    /\ networkConfig = FALSE
    /\ ClientUse \in InitialClientUse
    /\ call = [p \in Procs |-> NoCall]
    /\ cycle = "idle"
    /\ snapClients = EmptyMap
    /\ snapFeeds = EmptyMap
    /\ semaphore = 0
    /\ InitFanoutIdle
    /\ InitAuxIdle
    /\ InitProbeIdle

NextFetch ==
    /\ \/ ExampleFetch
       \/ LatestRoundData(Example)
       \/ SwitchRPCEndpointImmediately(Example)
       \/ GetBestClient(Example)
       \/ SleepAndRetry(Example)
       \/ ExampleFailed
       \/ ExampleStore
    /\ UNCHANGED <<fanout, probeVars, auxVars>>

SpecFetch == InitFetch /\ [][NextFetch]_vars

\* the sets of feeds tracked when a cycle starts, as indices of CycleTripleSeq
TrackedChoices == {{1}, {2}, {1, 2}, {1, 3}, {2, 3}, {2, 4}}

\* AddFeed for every chosen triple, in the order of CycleTripleSeq
RECURSIVE SetupAddFeed(_, _, _, _)
SetupAddFeed(i, tracked, d, f) ==
    IF i > Len(CycleTripleSeq) THEN <<d, f>>
    ELSE IF i \notin tracked THEN SetupAddFeed(i + 1, tracked, d, f)
    ELSE LET t == CycleTripleSeq[i]
         IN  SetupAddFeed(i + 1, tracked, AddFeedData(d, t[1]),
                          AddFeedFeeds(d, f, t[1], makePrefixedIdentifier(t[2], t[3])))

\* a record an earlier cycle stored for every chosen Chainlink feed
RECURSIVE SetupUpdatePrice(_, _, _)
SetupUpdatePrice(i, stored, d) ==
    IF i > Len(CycleTripleSeq) THEN d
    ELSE IF i \notin stored THEN SetupUpdatePrice(i + 1, stored, d)
    ELSE LET t == CycleTripleSeq[i]
         IN  SetupUpdatePrice(i + 1, stored,
                UpdatePriceData(d, t[1], makePrefixedIdentifier(t[2], t[3]),
                                ChainlinkPrice(t[3], 0, 1)))

\* a monitor whose feeds were added, whose clients were added for network 1
\* and possibly network 2, and which may have stored records before
InitCycle ==
    /\ \E tracked \in TrackedChoices :
          LET s == SetupAddFeed(1, tracked, EmptyMap, EmptyMap)
              chainlinkTracked == { i \in tracked : CycleTripleSeq[i][2] = SourceChainlink }
          IN  /\ feeds = s[2]
              /\ \E stored \in {{}, chainlinkTracked} :
                    data = SetupUpdatePrice(1, stored, s[1])
    /\ mu = 0
    /\ customSizeEstimators = EmptyMap
    /\ pc = [p \in Callers |-> "idle"]
    /\ args = [p \in Callers |-> NoArgs]
    /\ lastPut = [t \in Triples |-> NoRecord]
    /\ pruned = {}
    /\ nOps = 0
    /\ noopAdds = 0
    /\ clients \in {[n \in {1} |-> "c1"], [n \in Networks |-> "c1"]}
    /\ networkConfig \in BOOLEAN
    /\ ClientUse \in (IF networkConfig THEN InitialClientUse ELSE {EmptyMap})
    /\ call = [p \in Procs |-> NoCall]
    /\ cycle = "idle"
    /\ snapClients = EmptyMap
    /\ snapFeeds = EmptyMap
    /\ semaphore = 0
    /\ InitFanoutIdle
    /\ InitAuxIdle
    /\ InitProbeIdle

NextCycle ==
    /\ \/ updateAllPrices
       \/ \E p \in GoroutineIds : goFetch(p)
       \/ \E p \in GoroutineIds : LatestRoundData(p)
       \/ \E p \in GoroutineIds : SwitchRPCEndpointImmediately(p)
       \/ \E p \in GoroutineIds : GetBestClient(p)
       \/ \E p \in GoroutineIds : SleepAndRetry(p)
       \/ \E p \in GoroutineIds : goFailed(p)
       \/ \E p \in GoroutineIds : goStore(p)
       \/ updateAllPricesWait
    /\ UNCHANGED <<fanout, probeVars, auxVars>>

SpecCycle == InitCycle /\ [][NextCycle]_vars

\* no direct call is under way: none was made, or the last one was refused
\* for want of a client and its caller still holds the error
DirectAtRest ==
    \/ call[Direct].st = "none"
    \/ call[Direct].st = "returned" /\ call[Direct].ret = ErrNoClient(call[Direct].networkID)

\* calls of fetchPriceData for any network, with or without a client, and
\* after them the cycle of the monitor
NextNoTransport ==
    \/ DirectAtRest /\ NextCycle
    \/ /\ cycle = "idle"
       /\ \/ \E n \in Networks, f \in DirectFeeds : directFetch(n, f)
          \/ LatestRoundData(Direct)
          \/ SwitchRPCEndpointImmediately(Direct)
          \/ GetBestClient(Direct)
          \/ SleepAndRetry(Direct)
          \/ directReturn
       /\ UNCHANGED <<fanout, probeVars, auxVars>>

SpecNoTransport == InitCycle /\ [][NextNoTransport]_vars

\* the cycle with every provider call, switcher call and goroutine step
\* eventually taken
SpecCycleFair == SpecCycle /\ WF_vars(NextCycle)

\* the fan-out of a cycle over FanoutFeeds feeds, each goroutine reduced to
\* its use of the semaphore: started, waiting to acquire, fetching (from the
\* acquire to the deferred release), ended
fanoutStart ==
    /\ cycle = "idle"
    /\ cycle' = "running"
    /\ semaphore' = 0
    /\ fanout' = [g \in 1..FanoutFeeds |-> "waiting"]
    /\ UNCHANGED <<cacheVars, clients, networkConfig, ClientUse, call, snapClients, snapFeeds>>

\* semaphore <- struct{}{}
fanoutAcquire(g) ==
    /\ fanout[g] = "waiting"
    /\ SemaphoreHasRoom(semaphore)
    /\ semaphore' = semaphore + 1
    /\ fanout' = [fanout EXCEPT ![g] = "fetching"]
    /\ UNCHANGED <<cacheVars, clients, networkConfig, ClientUse, call, cycle, snapClients, snapFeeds>>

\* defer func() { <-semaphore }(), after the fetch and the store or the log
fanoutRelease(g) ==
    /\ fanout[g] = "fetching"
    /\ semaphore' = semaphore - 1
    /\ fanout' = [fanout EXCEPT ![g] = "done"]
    /\ UNCHANGED <<cacheVars, clients, networkConfig, ClientUse, call, cycle, snapClients, snapFeeds>>

fanoutWait ==
    /\ cycle = "running"
    /\ \A g \in 1..FanoutFeeds : fanout[g] = "done"
    /\ cycle' = "done"
    /\ UNCHANGED <<cacheVars, clients, networkConfig, ClientUse, call, snapClients, snapFeeds,
                   semaphore, fanout>>

NextFanout ==
    /\ \/ fanoutStart
       \/ \E g \in 1..FanoutFeeds : fanoutAcquire(g)
       \/ \E g \in 1..FanoutFeeds : fanoutRelease(g)
       \/ fanoutWait
    /\ UNCHANGED <<probeVars, auxVars>>

SpecFanout == Init /\ [][NextFanout]_vars

\* the table a tick starts from: empty, or a client per network
InitProbe ==
    /\ InitCache
    /\ clients = EmptyMap
    /\ networkConfig = FALSE
    /\ ClientUse \in {EmptyMap, [n \in Networks |-> "e0"]}
    /\ call = [p \in Procs |-> NoCall]
    /\ cycle = "idle"
    /\ snapClients = EmptyMap
    /\ snapFeeds = EmptyMap
    /\ semaphore = 0
    /\ InitFanoutIdle
    /\ InitAuxIdle
    /\ InitProbeIdle

NextProbe ==
    \/ getBestRPCEndpointsParallel
    \/ \E e \in ProbeIds : probeEndpoint(e[1], e[2])
    \/ \E k \in 1..Len(ProbeNetworks) : closeLatencyChan(k)
    \/ \E k \in 1..Len(ProbeNetworks) : receiveResult(k)
    \/ \E k \in 1..Len(ProbeNetworks) : storeBestEndpoint(k)
    \/ MonitorAllRPCEndpoints

SpecProbe == InitProbe /\ [][NextProbe]_vars

\* The periodic loops: CLPriceMonitor.Start and MonitorAllRPCEndpoints

loopRest ==
    <<cacheVars, fetchVars, fanout, probeVars, readers, netconfMu, publish, getters, tableOps,
      registryVars, returned, pythVars, panicked>>

\* the ticker sends on ticker.C, whose buffer holds one tick: a tick that
\* finds one waiting is dropped
tick(l) ==
    /\ loopPc[l] \in {"select", "cycle"} /\ ticks < MaxTicks
    /\ tickPending' = [tickPending EXCEPT ![l] = TRUE]
    /\ ticks' = ticks + 1
    /\ UNCHANGED <<stopChan, loopPc, loopRest>>

\* Stop(): close(stopChan)
Stop(l) ==
    /\ ~stopChan[l]
    /\ stopChan' = [stopChan EXCEPT ![l] = TRUE]
    /\ UNCHANGED <<loopPc, tickPending, ticks, loopRest>>

\* select takes case <-stopChan: the loop returns
selectStop(l) ==
    /\ loopPc[l] = "select" /\ stopChan[l]
    /\ loopPc' = [loopPc EXCEPT ![l] = "returned"]
    /\ UNCHANGED <<stopChan, tickPending, ticks, loopRest>>

\* select takes case <-ticker.C: a cycle starts. When both channels are
\* ready the select takes either case
selectTick(l) ==
    /\ loopPc[l] = "select" /\ tickPending[l]
    /\ loopPc' = [loopPc EXCEPT ![l] = "cycle"]
    /\ tickPending' = [tickPending EXCEPT ![l] = FALSE]
    /\ UNCHANGED <<stopChan, ticks, loopRest>>

\* the cycle in flight (updateAllPrices, or the probes and the update of
\* the clients) comes to its end and the loop is back at its select
cycleReturns(l) ==
    /\ loopPc[l] = "cycle"
    /\ loopPc' = [loopPc EXCEPT ![l] = "select"]
    /\ UNCHANGED <<stopChan, tickPending, ticks, loopRest>>

\* Start() runs its initial updateAllPrices before the loop;
\* MonitorAllRPCEndpoints starts at its select
InitLoops ==
    /\ InitCache /\ InitFetchIdle /\ InitFanoutIdle /\ InitProbeIdle
    /\ readers = {} /\ InitTableIdle /\ InitRegistryIdle /\ InitCopiesIdle
    /\ stopChan = [l \in Loops |-> FALSE]
    /\ loopPc = [l \in Loops |-> IF l = "fetch" THEN "cycle" ELSE "select"]
    /\ tickPending = [l \in Loops |-> FALSE]
    /\ ticks = 0

NextLoops ==
    \/ \E l \in Loops : tick(l)
    \/ \E l \in Loops : Stop(l)
    \/ \E l \in Loops : selectStop(l)
    \/ \E l \in Loops : selectTick(l)
    \/ \E l \in Loops : cycleReturns(l)

SpecLoops == InitLoops /\ [][NextLoops]_vars

\* CLPriceMonitor.Start with its cycles in full: the initial updateAllPrices
\* and one per tick taken, each with its goroutines, failovers and waits

startRest ==
    <<cacheVars, clients, networkConfig, ClientUse, call, snapClients, snapFeeds, semaphore,
      fanout, probeVars, readers, netconfMu, publish, getters, tableOps, registryVars, returned,
      pythVars, panicked>>

\* updateAllPrices has returned to Start, which is back at its select
startCycleReturns ==
    /\ loopPc["fetch"] = "cycle" /\ cycle = "done"
    /\ loopPc' = [loopPc EXCEPT !["fetch"] = "select"]
    /\ UNCHANGED <<cycle, stopChan, tickPending, ticks, startRest>>

\* select takes case <-ticker.C and Start calls updateAllPrices
startSelectTick ==
    /\ loopPc["fetch"] = "select" /\ tickPending["fetch"]
    /\ loopPc' = [loopPc EXCEPT !["fetch"] = "cycle"]
    /\ tickPending' = [tickPending EXCEPT !["fetch"] = FALSE]
    /\ cycle' = "idle"
    /\ UNCHANGED <<stopChan, ticks, startRest>>

\* a monitor in the initial updateAllPrices of Start, its cache empty: one
\* tracked feed with or without a switcher, or a feed on each of two
\* networks without one
InitStart ==
    /\ \E tracked \in {{1}, {1, 3}} :
          LET s == SetupAddFeed(1, tracked, EmptyMap, EmptyMap)
          IN  /\ feeds = s[2] /\ data = s[1]
              /\ networkConfig \in (IF tracked = {1} THEN BOOLEAN ELSE {FALSE})
    /\ mu = 0
    /\ customSizeEstimators = EmptyMap
    /\ pc = [p \in Callers |-> "idle"]
    /\ args = [p \in Callers |-> NoArgs]
    /\ lastPut = [t \in Triples |-> NoRecord]
    /\ pruned = {}
    /\ nOps = 0
    /\ noopAdds = 0
    /\ clients = [n \in Networks |-> "c1"]
    /\ ClientUse \in (IF networkConfig THEN InitialClientUse ELSE {EmptyMap})
    /\ call = [p \in Procs |-> NoCall]
    /\ cycle = "idle"
    /\ snapClients = EmptyMap
    /\ snapFeeds = EmptyMap
    /\ semaphore = 0
    /\ InitFanoutIdle /\ InitProbeIdle
    /\ readers = {} /\ InitTableIdle /\ InitRegistryIdle /\ InitCopiesIdle
    /\ stopChan = [l \in Loops |-> FALSE]
    /\ loopPc = [l \in Loops |-> IF l = "fetch" THEN "cycle" ELSE "none"]
    /\ tickPending = [l \in Loops |-> FALSE]
    /\ ticks = 0

NextStart ==
    \/ loopPc["fetch"] = "cycle" /\ NextCycle
    \/ tick("fetch")
    \/ startCycleReturns
    \/ startSelectTick

SpecStart == InitStart /\ [][NextStart]_vars

\* Stop() called again: the periodic loops with callers that may call Stop
\* any number of times, from one goroutine or from several

stopRest ==
    <<cacheVars, fetchVars, fanout, probeVars, readers, netconfMu, publish, getters, tableOps,
      registryVars, returned, pythVars>>

\* what close(ch) does to a channel that is closed already
CloseOfClosed == "panic: close of closed channel"

\* Stop() on a monitor whose stopChan was closed by an earlier Stop
StopAgain(l) ==
    /\ stopChan[l]
    /\ panicked' = CloseOfClosed
    /\ UNCHANGED <<stopChan, loopPc, tickPending, ticks, stopRest>>

\* a panic that no goroutine recovers ends the process
NextStop ==
    /\ panicked = ""
    /\ \/ NextLoops
       \/ \E l \in Loops : StopAgain(l)

SpecStop == InitLoops /\ [][NextStop]_vars

\* What a record says of itself: the cache with callers that pass any record

\* PriceInfo.GetSource: a constant of the record's type
GetSource(priceInfo) ==
    IF priceInfo.kind = "chainlink" THEN SourceChainlink
    ELSE IF priceInfo.kind = "pyth" THEN SourcePyth
    ELSE SourceCustom

\* PriceInfo.GetNetworkID: the record's NetworkID field
GetNetworkID(priceInfo) == priceInfo.networkID

\* PriceInfo.GetIdentifier: FeedAddress of a ChainlinkPrice, ID of a PythPrice
GetIdentifier(priceInfo) == priceInfo.id

\* the PriceInfo values a caller can build: the fields of a record are the
\* caller's, whatever arguments it passes beside the record
BuiltinSources == {SourceChainlink, SourcePyth}

\* the timestamp of the records that are stored
StoreTimes == {2}

PriceInfos ==
    { r @@ [networkID |-> n] :
        r \in { x \in UNION { RecordsFor(s, id) : s \in BuiltinSources, id \in Identifiers } :
                   x.ts \in StoreTimes },
        n \in Networks }

\* the *PriceData values of the old format
PriceDatas == [NetworkID : Networks, Answer : Answers, Timestamp : StoreTimes]

\* PriceCache.UpdatePriceLegacy: the record takes its network id from
\* priceData and its feed address from the argument
UpdatePriceLegacy(p, networkID, feedAddress, priceData) ==
    UpdatePrice(p, networkID, feedAddress, SourceChainlink,
                ChainlinkPrice(feedAddress, priceData.Answer, priceData.Timestamp)
                    @@ [networkID |-> priceData.NetworkID])

\* the goroutine that stores the records
RecordCaller == 1

NextRecords ==
    \/ \E networkID \in Networks, identifier \in Identifiers,
            source \in BuiltinSources, priceInfo \in PriceInfos :
          /\ UpdatePrice(RecordCaller, networkID, identifier, source, priceInfo)
          /\ UNCHANGED <<fetchVars, fanout, probeVars, auxVars>>
    \/ \E networkID \in Networks, feedAddress \in Identifiers, priceData \in PriceDatas :
          /\ UpdatePriceLegacy(RecordCaller, networkID, feedAddress, priceData)
          /\ UNCHANGED <<fetchVars, fanout, probeVars, auxVars>>
    \/ UpdatePricePrune(RecordCaller) /\ UNCHANGED <<fetchVars, fanout, probeVars, auxVars>>
    \/ UpdatePriceRelock(RecordCaller) /\ UNCHANGED <<fetchVars, fanout, probeVars, auxVars>>
    \/ UpdatePriceReturn(RecordCaller) /\ UNCHANGED <<fetchVars, fanout, probeVars, auxVars>>
    \/ \E kind \in Kinds, z \in RegisteredSizes :
          /\ RegisterSizeEstimator(kind, z)
          /\ UNCHANGED <<fetchVars, fanout, probeVars, auxVars>>

SpecRecords == Init /\ [][NextRecords]_vars

\* The size check of UpdatePrice and the total of prune: the cache with
\* records that bring its size next to the cap

\* a size that leaves one record a few bytes under MaxCacheSizeBytes
NearCapSize == MaxCacheSizeBytes - 32

\* records that report their own size (Sizable)
SizableRecords(identifier) ==
    { [kind |-> "sizable", id |-> identifier, symbol |-> <<>>, ts |-> t, size |-> z, answer |-> a]
        : t \in Times, z \in {NearCapSize} \cup SelfReportedSizes, a \in Answers }

NextTrigger ==
    \/ \E p \in Callers, networkID \in Networks :
          \E priceInfo \in SizableRecords(<<"a">>) :
              /\ UpdatePrice(p, networkID, <<"a">>, SourceCustom, priceInfo)
              /\ UNCHANGED <<fetchVars, fanout, probeVars, auxVars>>
    \/ \E p \in Callers :
          UpdatePricePrune(p) /\ UNCHANGED <<fetchVars, fanout, probeVars, auxVars>>
    \/ \E p \in Callers :
          UpdatePriceRelock(p) /\ UNCHANGED <<fetchVars, fanout, probeVars, auxVars>>
    \/ \E p \in Callers :
          UpdatePriceReturn(p) /\ UNCHANGED <<fetchVars, fanout, probeVars, auxVars>>

SpecTrigger == Init /\ [][NextTrigger]_vars

\* the endpoint table while MonitorAllRPCEndpoints publishes the selected
\* endpoints and callers ask for the best client
InitTable ==
    /\ InitCache
    /\ clients = EmptyMap
    /\ networkConfig = TRUE
    /\ ClientUse \in {EmptyMap, [n \in Networks |-> "e0"]}
    /\ call = [p \in Procs |-> NoCall]
    /\ cycle = "idle"
    /\ snapClients = EmptyMap
    /\ snapFeeds = EmptyMap
    /\ semaphore = 0
    /\ InitFanoutIdle
    /\ InitProbeIdle
    /\ readers = {}
    /\ netconfMu = 0
    /\ publish = [NoPublish EXCEPT !.todo = SelectedEndpoints]
    /\ getters = [g \in Getters |-> NoGet]
    /\ tableOps = 0
    /\ InitLoopsIdle
    /\ InitRegistryIdle
    /\ InitCopiesIdle

NextTable ==
    \/ \E e \in SelectedEndpoints : publishClient(e)
    \/ \E e \in SelectedEndpoints : publishSkip(e)
    \/ publishLock
    \/ publishUnlock
    \/ \E g \in Getters, n \in Networks : getBestClientCall(g, n)
    \/ \E g \in Getters : getBestClientRLock(g)
    \/ \E g \in Getters : getBestClientReturn(g)

SpecTable == InitTable /\ [][NextTable]_vars

\* every goroutine of the tick is scheduled, and the timeout of a probe fires
SpecProbeFair == SpecProbe /\ WF_vars(NextProbe)

\* a step of the goroutine of network k or of one of its endpoint goroutines
networkStep(k) ==
    \/ \E i \in 1..Len(ProbeNetworks[k].Endpoints) : probeEndpoint(k, i)
    \/ closeLatencyChan(k)
    \/ receiveResult(k)
    \/ storeBestEndpoint(k)

\* the network probed while another one is slow
ProbedNetwork == 2

\* the goroutines of one network are scheduled and its timeouts fire, while
\* the endpoints of every other network may take arbitrarily long
SpecProbeOthersSlow ==
    SpecProbe /\ WF_vars(getBestRPCEndpointsParallel) /\ WF_vars(networkStep(ProbedNetwork))

\* The registry of size estimators: customSizeEstimators under customEstimatorsMu

registryRest ==
    <<data, feeds, mu, pc, args, lastPut, pruned, nOps, noopAdds, fetchVars, fanout, probeVars,
      readers, netconfMu, publish, getters, tableOps, stopChan, loopPc, tickPending, ticks,
      returned, pythVars, panicked>>

\* the records whose size is asked for: nil, and one of every kind
SizedRecords ==
    {NilPriceInfo} \cup
    { r \in UNION { RecordsFor(source, <<"a">>) : source \in Sources } : r.ts = 1 }

\* what a read of the map gives while another goroutine writes it
RacedReads == {NoEstimator, 0} \cup RegisteredSizes

\* customEstimatorsMu.Lock() returns: no writer and no reader holds the lock
CanLockEstimators == customEstimatorsMu = 0 /\ estimatorReaders = {}

\* a read lock that would not wait for the writer
CanRLockEstimatorsAlways == TRUE

\* customEstimatorsMu.RLock() returns: no writer holds the lock
CanRLockEstimators == customEstimatorsMu = 0

\* the callers that are inside a lookup
InLookup == { q \in SizeCallers : sizing[q].pc \in {"est_wait", "est_locked", "est_unlocked"} }

\* a caller enters RegisterSizeEstimator[T](estimator), T the kind and z what
\* the estimator returns, and asks for customEstimatorsMu.Lock()
registerCall(p, kind, z) ==
    /\ sizing[p].pc \in {"idle", "done"} /\ sizeOps < MaxSizeOps
    /\ sizing' = [sizing EXCEPT ![p] = [NoSizing EXCEPT !.pc = "reg_wait", !.kind = kind, !.z = z]]
    /\ sizeOps' = sizeOps + 1
    /\ UNCHANGED <<customSizeEstimators, customEstimatorsMu, estimatorReaders, registryRest>>

\* customEstimatorsMu.Lock() returns
registerLock(p) ==
    /\ sizing[p].pc = "reg_wait" /\ CanLockEstimators
    /\ customEstimatorsMu' = p
    /\ sizing' = [sizing EXCEPT ![p].pc = "reg_locked"]
    /\ UNCHANGED <<customSizeEstimators, estimatorReaders, sizeOps, registryRest>>

\* customSizeEstimators[priceType] = the wrapped estimator; a lookup that
\* holds the map at that moment races with the write
registerStore(p) ==
    /\ sizing[p].pc = "reg_locked"
    /\ customSizeEstimators' = MapPut(customSizeEstimators, sizing[p].kind, sizing[p].z)
    /\ sizing' = [q \in SizeCallers |->
          IF q = p THEN [sizing[q] EXCEPT !.pc = "reg_stored"]
          ELSE IF q \in InLookup
          THEN [sizing[q] EXCEPT !.since = @ \cup {<<sizing[p].kind, sizing[p].z>>},
                                 !.raced = @ \/ sizing[q].pc = "est_locked"]
          ELSE sizing[q]]
    /\ UNCHANGED <<customEstimatorsMu, estimatorReaders, sizeOps, registryRest>>

\* the deferred customEstimatorsMu.Unlock()
registerUnlock(p) ==
    /\ sizing[p].pc = "reg_stored"
    /\ customEstimatorsMu' = 0
    /\ sizing' = [sizing EXCEPT ![p].pc = "idle"]
    /\ UNCHANGED <<customSizeEstimators, estimatorReaders, sizeOps, registryRest>>

\* a caller enters EstimatePriceInfoSize(priceInfo): a nil record and a
\* record that reports its size return at once, any other asks for
\* customEstimatorsMu.RLock()
estimateCall(p, priceInfo) ==
    /\ sizing[p].pc \in {"idle", "done"} /\ sizeOps < MaxSizeOps
    /\ LET c == [NoSizing EXCEPT !.priceInfo = priceInfo, !.kind = priceInfo.kind,
                                 !.atCall = customSizeEstimators]
       IN  sizing' = [sizing EXCEPT ![p] =
              IF priceInfo = NilPriceInfo \/ priceInfo.kind = "sizable"
              THEN [c EXCEPT !.pc = "done",
                             !.result = EstimatePriceInfoSize(priceInfo, customSizeEstimators)]
              ELSE [c EXCEPT !.pc = "est_wait"]]
    /\ sizeOps' = sizeOps + 1
    /\ UNCHANGED <<customSizeEstimators, customEstimatorsMu, estimatorReaders, registryRest>>

\* customEstimatorsMu.RLock() returns
estimateRLock(p) ==
    /\ sizing[p].pc = "est_wait" /\ CanRLockEstimators
    /\ estimatorReaders' = estimatorReaders \cup {p}
    /\ sizing' = [sizing EXCEPT ![p].pc = "est_locked"]
    /\ UNCHANGED <<customSizeEstimators, customEstimatorsMu, sizeOps, registryRest>>

\* estimator, exists := customSizeEstimators[priceType], then RUnlock; a read
\* made while a writer is inside its critical section is a data race and
\* gives any of RacedReads
estimateLookup(p) ==
    /\ sizing[p].pc = "est_locked"
    /\ estimatorReaders' = estimatorReaders \ {p}
    /\ IF customEstimatorsMu # 0
       THEN \E e \in RacedReads :
               sizing' = [sizing EXCEPT ![p].pc = "est_unlocked", ![p].estimator = e,
                                        ![p].raced = TRUE]
       ELSE sizing' = [sizing EXCEPT ![p].pc = "est_unlocked",
                          ![p].estimator =
                              IF sizing[p].kind \in DOMAIN customSizeEstimators
                              THEN customSizeEstimators[sizing[p].kind] ELSE NoEstimator]
    /\ UNCHANGED <<customSizeEstimators, customEstimatorsMu, sizeOps, registryRest>>

\* the registry as the lookup saw it: the entry of the record's kind
SeenRegistry(c) ==
    IF c.estimator = NoEstimator THEN EmptyMap ELSE [k \in {c.kind} |-> c.estimator]

\* return estimator(priceInfo), or the built-in formula, or the constant
estimateReturn(p) ==
    /\ sizing[p].pc = "est_unlocked"
    /\ sizing' = [sizing EXCEPT ![p].pc = "done",
                     ![p].result = EstimatePriceInfoSize(sizing[p].priceInfo, SeenRegistry(sizing[p]))]
    /\ UNCHANGED <<customSizeEstimators, customEstimatorsMu, estimatorReaders, sizeOps, registryRest>>

InitRegistry == Init

NextRegistry ==
    \/ \E p \in SizeCallers, kind \in Kinds, z \in RegisteredSizes : registerCall(p, kind, z)
    \/ \E p \in SizeCallers : registerLock(p)
    \/ \E p \in SizeCallers : registerStore(p)
    \/ \E p \in SizeCallers : registerUnlock(p)
    \/ \E p \in SizeCallers, priceInfo \in SizedRecords : estimateCall(p, priceInfo)
    \/ \E p \in SizeCallers : estimateRLock(p)
    \/ \E p \in SizeCallers : estimateLookup(p)
    \/ \E p \in SizeCallers : estimateReturn(p)

SpecRegistry == InitRegistry /\ [][NextRegistry]_vars

\* The maps handed to callers: GetAllPrices, GetAllPricesBySource, GetAllClients

\* a Go map is a reference: a returned map is either a map of its own, whose
\* content the handle carries, or the very map the cache or the table holds

\* return pc.data[networkID], return netconf.ClientUse: the map itself
returnSameMap(h, m) == [h EXCEPT !.aliased = TRUE, !.content = EmptyMap]

\* result := make(map...) and the range loop that fills it
makeCopy(h, m) == [h EXCEPT !.aliased = FALSE, !.content = m]

\* the map of the cache or of the table a listing was taken from, as it is now
OriginOf(h) ==
    CASE h.fn = "GetAllPrices" -> GetAllPrices(h.networkID)
      [] h.fn = "GetAllPricesBySource" -> GetAllPricesBySource(h.networkID, h.source)
      [] h.fn = "GetAllClients" -> ClientUse
      [] OTHER -> EmptyMap

\* what the holder of a returned map reads in it
Deref(h) == IF h.aliased THEN OriginOf(h) ELSE h.content

\* the feeds written while listings are held, and what is written to them
CopyTriples == { <<1, SourceChainlink, <<"a">>>>, <<1, SourcePyth, <<"a">>>> }

\* the record and the client a caller puts into a map it was given
CallerRecord ==
    [kind |-> "custom", id |-> <<"a">>, symbol |-> <<>>, ts |-> 2, size |-> 0, answer |-> 1]

CallerClient == "mine"

\* the key a caller writes or deletes in a returned map
CallerKey(h) ==
    CASE h.fn = "GetAllPrices" -> makePrefixedIdentifier(SourceChainlink, <<"a">>)
      [] h.fn = "GetAllPricesBySource" -> <<"a">>
      [] OTHER -> 1

CallerValue(h) == IF h.fn = "GetAllClients" THEN CallerClient ELSE CallerRecord

copyCacheRest == <<mu, customSizeEstimators, pc, args, lastPut, pruned, nOps, noopAdds>>

copyFetchRest == <<clients, networkConfig, call, cycle, snapClients, snapFeeds, semaphore>>

copyAuxRest ==
    <<fanout, probeVars, readers, netconfMu, publish, getters, tableOps, stopChan, loopPc,
      tickPending, ticks, registryVars, pythVars, panicked>>

\* GetAllPrices(networkID), from RLock to the return of the map
callGetAllPrices(networkID) ==
    /\ returned["prices"].fn = "none" /\ mu = 0
    /\ LET m == GetAllPrices(networkID)
           h == [NoHandle EXCEPT !.fn = "GetAllPrices", !.networkID = networkID,
                                 !.atReturn = m, !.expected = m]
       IN  returned' = [returned EXCEPT !["prices"] =
                           IF networkID \in DOMAIN data THEN makeCopy(h, m)
                           ELSE [h EXCEPT !.content = m]]
    /\ UNCHANGED <<data, feeds, ClientUse, copyCacheRest, copyFetchRest, copyAuxRest>>

\* GetAllPricesBySource(networkID, source): the result is built key by key
callGetAllPricesBySource(networkID, source) ==
    /\ returned["prices"].fn = "none" /\ mu = 0
    /\ LET m == GetAllPricesBySource(networkID, source)
       IN  returned' = [returned EXCEPT !["prices"] =
                           [NoHandle EXCEPT !.fn = "GetAllPricesBySource",
                                            !.networkID = networkID, !.source = source,
                                            !.content = m, !.atReturn = m, !.expected = m]]
    /\ UNCHANGED <<data, feeds, ClientUse, copyCacheRest, copyFetchRest, copyAuxRest>>

\* GetAllClients(), from RLock to the return of the map
callGetAllClients ==
    /\ returned["clients"].fn = "none" /\ netconfMu = 0
    /\ LET h == [NoHandle EXCEPT !.fn = "GetAllClients", !.atReturn = ClientUse,
                                 !.expected = ClientUse]
       IN  returned' = [returned EXCEPT !["clients"] = makeCopy(h, ClientUse)]
    /\ UNCHANGED <<data, feeds, ClientUse, copyCacheRest, copyFetchRest, copyAuxRest>>

\* the map of the cache or of the table after a write through an alias of it
WriteOrigin(h, m) ==
    /\ IF h.fn = "GetAllPrices"
       THEN data' = MapPut(data, h.networkID, m)
       ELSE data' = data
    /\ IF h.fn = "GetAllClients"
       THEN ClientUse' = m
       ELSE ClientUse' = ClientUse

\* the caller assigns m[key] = value in a map it was given
writeReturned(l) ==
    /\ returned[l].fn # "none" /\ ~returned[l].written
    /\ LET h == returned[l]
           k == CallerKey(h)
           v == CallerValue(h)
       IN  /\ returned' = [returned EXCEPT ![l] =
                  [h EXCEPT !.written = TRUE,
                            !.expected = MapPut(@, k, v),
                            !.content = IF h.aliased THEN @ ELSE MapPut(@, k, v)]]
           /\ IF h.aliased THEN WriteOrigin(h, MapPut(OriginOf(h), k, v))
              ELSE UNCHANGED <<data, ClientUse>>
    /\ UNCHANGED <<feeds, copyCacheRest, copyFetchRest, copyAuxRest>>

\* the caller deletes a key of a map it was given
deleteReturned(l) ==
    /\ returned[l].fn # "none" /\ ~returned[l].written
    /\ LET h == returned[l]
           k == CallerKey(h)
       IN  /\ k \in DOMAIN Deref(h)
           /\ returned' = [returned EXCEPT ![l] =
                  [h EXCEPT !.written = TRUE,
                            !.expected = MapDel(@, k),
                            !.content = IF h.aliased THEN @ ELSE MapDel(@, k)]]
           /\ IF h.aliased THEN WriteOrigin(h, MapDel(OriginOf(h), k))
              ELSE UNCHANGED <<data, ClientUse>>
    /\ UNCHANGED <<feeds, copyCacheRest, copyFetchRest, copyAuxRest>>

\* the caller lets go of the map
dropReturned(l) ==
    /\ returned[l].fn # "none"
    /\ returned' = [returned EXCEPT ![l] = NoHandle]
    /\ UNCHANGED <<data, feeds, ClientUse, copyCacheRest, copyFetchRest, copyAuxRest>>

\* UpdatePrice while listings are held
copyUpdatePrice(t, priceInfo) ==
    /\ UpdatePriceCall(t[1], t[3], t[2], priceInfo)
    /\ UNCHANGED <<fetchVars, fanout, probeVars, auxVars>>

InitCopies == InitTable

NextCopies ==
    \/ \E n \in Networks : callGetAllPrices(n)
    \/ \E n \in Networks, source \in Sources : callGetAllPricesBySource(n, source)
    \/ callGetAllClients
    \/ \E l \in Listings : writeReturned(l)
    \/ \E l \in Listings : deleteReturned(l)
    \/ \E l \in Listings : dropReturned(l)
    \/ \E t \in CopyTriples : \E priceInfo \in RecordsFor(t[2], t[3]) : copyUpdatePrice(t, priceInfo)
    \/ \E e \in SelectedEndpoints : publishClient(e)
    \/ publishLock
    \/ publishUnlock

SpecCopies == InitCopies /\ [][NextCopies]_vars

\* The Hermes HTTP client: HermesClient.httpRequest (pyth/client.go)

\* the httpRetries a client is built with: the default, smaller ones, and a
\* negative one from a configuration
HTTPRetriesChoices == {-1, 0, 1, DefaultHTTPRetries}

\* the initial backoff in ms: 100 + rand.Intn(100)
InitialBackoffs == {100, 199}

\* what one pass of the loop meets: NewRequestWithContext fails, Do fails,
\* or a response arrives with a status and a body that decodes or does not
HTTPOutcomes ==
    { [kind |-> "badrequest", status |-> 0, decodes |-> FALSE] }
    \cup { [kind |-> "transport", status |-> 0, decodes |-> FALSE] }
    \cup { [kind |-> "response", status |-> c, decodes |-> d] :
             c \in {199, 200, 204, 299, 300, 404, 500}, d \in BOOLEAN }

\* a status test that takes 200 alone for a success
IsSuccessStatus200Only(status) == status = 200

\* the negation of resp.StatusCode < 200 || resp.StatusCode >= 300
IsSuccessStatus(status) == ~(status < 200 \/ status >= 300)

ErrCreateRequest == <<"failed to create request">>
ErrHTTPRequestFailed == <<"HTTP request failed">>
ErrHTTPStatus(status) == <<"HTTP error! status", status>>
ErrDecodeResponse == <<"failed to decode response">>

\* the error an outcome leaves in lastErr, NoError for a 2xx response
AttemptError(out) ==
    IF out.kind = "transport" THEN ErrHTTPRequestFailed
    ELSE IF out.kind = "response" /\ ~IsSuccessStatus(out.status) THEN ErrHTTPStatus(out.status)
    ELSE NoError

hermesRest ==
    <<cacheVars, fetchVars, fanout, probeVars, readers, netconfMu, publish, getters, tableOps,
      stopChan, loopPc, tickPending, ticks, registryVars, returned, ws, wsProcs, panicked>>

\* httpRequest is entered: lastErr is nil, the backoff is drawn, attempt := 0
httpRequest ==
    /\ hermes.st = "idle"
    /\ \E b \in InitialBackoffs :
          hermes' = [NoRequest EXCEPT !.st = "loop", !.httpRetries = hermes.httpRetries,
                                      !.backoff = b]
    /\ UNCHANGED hermesRest

\* one pass of for attempt := 0; attempt <= c.httpRetries; attempt++, up to
\* its return or its time.Sleep
httpAttempt ==
    /\ hermes.st = "loop"
    /\ IF ~(hermes.attempt <= hermes.httpRetries)
       THEN hermes' = [hermes EXCEPT !.st = "returned", !.ret = hermes.lastErr]
       ELSE \E out \in HTTPOutcomes :
              IF out.kind = "badrequest"
              THEN hermes' = [hermes EXCEPT !.st = "returned", !.ret = ErrCreateRequest]
              ELSE LET h == [hermes EXCEPT !.outcomes = Append(@, out)]
                   IN  IF out.kind = "transport" \/ ~IsSuccessStatus(out.status)
                       THEN IF hermes.attempt < hermes.httpRetries
                            THEN hermes' = [h EXCEPT !.st = "sleep", !.lastErr = AttemptError(out)]
                            ELSE hermes' = [h EXCEPT !.st = "returned",
                                                     !.lastErr = AttemptError(out),
                                                     !.ret = AttemptError(out)]
                       ELSE hermes' = [h EXCEPT !.st = "returned",
                                                !.ret = IF out.decodes THEN NoError
                                                        ELSE ErrDecodeResponse]
    /\ UNCHANGED hermesRest

\* time.Sleep(backoff); backoff *= 2; continue
httpBackoff ==
    /\ hermes.st = "sleep"
    /\ hermes' = [hermes EXCEPT !.st = "loop", !.slept = @ + hermes.backoff,
                                !.backoff = @ * 2, !.attempt = @ + 1]
    /\ UNCHANGED hermesRest

InitHermes ==
    /\ InitCache /\ InitFetchIdle /\ InitFanoutIdle /\ InitProbeIdle
    /\ readers = {} /\ InitTableIdle /\ InitLoopsIdle /\ InitRegistryIdle
    /\ returned = [l \in Listings |-> NoHandle]
    /\ \E r \in HTTPRetriesChoices : hermes = [NoRequest EXCEPT !.httpRetries = r]
    /\ InitWSIdle
    /\ panicked = ""

NextHermes ==
    \/ httpRequest
    \/ httpAttempt
    \/ httpBackoff

SpecHermes == InitHermes /\ [][NextHermes]_vars

\* The WebSocket client: WebSocketClient (pyth websocket client), started
\* with no subscribed price ids, so that Start and handleReconnect skip
\* Subscribe

wsRest ==
    <<cacheVars, fetchVars, fanout, probeVars, readers, netconfMu, publish, getters, tableOps,
      stopChan, loopPc, tickPending, ticks, registryVars, returned, hermes, panicked>>

\* go f(): procs with the goroutine started at its first step
Go(procs, kind, first) ==
    LET g == CHOOSE x \in WSProcIds :
                 procs[x].kind = "none" /\ \A h \in 1..(x - 1) : procs[h].kind # "none"
    IN  [procs EXCEPT ![g] = [NoProc EXCEPT !.kind = kind, !.pc = first]]

\* handleReconnect returns: to the loop of readMessages that called it, or
\* the goroutine started for it ends
Return(p) == IF p.kind = "read" THEN [p EXCEPT !.pc = "top", !.conn = 0, !.seen = 0] ELSE NoProc

\* Connect(): the dial succeeds, and conn, connected and reconnectCount are
\* set under connMutex; connections are numbered by the dial that made them
Connected(w) ==
    [w EXCEPT !.conn = w.dials + 1, !.connected = TRUE, !.reconnectCount = 0,
              !.dials = @ + 1, !.failedSince = 0, !.lastDial = "ok"]

\* Connect(): the dial fails
ConnectFailed(w) == [w EXCEPT !.dials = @ + 1, !.lastDial = "failed"]

\* Start() on a client that is not connected: Connect, then go readMessages
Start ==
    /\ ws.started = "no" /\ ws.disconnect = "no" /\ ws.dials < MaxDials
    /\ \/ /\ ws' = [Connected(ws) EXCEPT !.started = "yes"]
          /\ wsProcs' = Go(wsProcs, "read", "top")
       \/ /\ ws' = [ConnectFailed(ws) EXCEPT !.started = "failed"]
          /\ UNCHANGED wsProcs
    /\ UNCHANGED wsRest

\* readMessages, top of the loop: return when ctx is done; else read
\* ws.conn, and call handleReconnect when it is nil
readTop(g) ==
    /\ wsProcs[g].kind = "read" /\ wsProcs[g].pc = "top"
    /\ wsProcs' = [wsProcs EXCEPT ![g] =
          IF ws.cancelled THEN NoProc
          ELSE IF ws.conn = 0 THEN [@ EXCEPT !.pc = "hr_close"]
          ELSE [@ EXCEPT !.pc = "reading", !.conn = ws.conn]]
    /\ UNCHANGED <<ws, wsRest>>

\* conn.ReadJSON returns a message, which is processed
readMessage(g) ==
    /\ wsProcs[g].kind = "read" /\ wsProcs[g].pc = "reading"
    /\ wsProcs[g].conn = ws.conn
    /\ wsProcs' = [wsProcs EXCEPT ![g] = [@ EXCEPT !.pc = "top", !.conn = 0]]
    /\ UNCHANGED <<ws, wsRest>>

\* conn.ReadJSON returns an error: the peer or the network failed, or the
\* connection was closed; handleReconnect is called
readError(g) ==
    /\ wsProcs[g].kind = "read" /\ wsProcs[g].pc = "reading"
    /\ wsProcs' = [wsProcs EXCEPT ![g] = [@ EXCEPT !.pc = "hr_close", !.conn = 0]]
    /\ UNCHANGED <<ws, wsRest>>

\* handleReconnect: under connMutex, connected = false and the connection,
\* if any, is closed and forgotten
hrClose(g) ==
    /\ wsProcs[g].pc = "hr_close"
    /\ ws' = [ws EXCEPT !.connected = FALSE, !.conn = 0]
    /\ wsProcs' = [wsProcs EXCEPT ![g] = [@ EXCEPT !.pc = "hr_check"]]
    /\ UNCHANGED wsRest

\* if ws.reconnectCount >= ws.maxReconnects { handleError; return }
hrCheck(g) ==
    /\ wsProcs[g].pc = "hr_check"
    /\ wsProcs' = [wsProcs EXCEPT ![g] =
          IF ws.reconnectCount >= ws.maxReconnects THEN Return(@)
          ELSE [@ EXCEPT !.pc = "hr_inc", !.seen = ws.reconnectCount]]
    /\ UNCHANGED <<ws, wsRest>>

\* ws.reconnectCount++ without a lock: the write is of the value now there
\* plus one, or of the value read earlier plus one
hrInc(g) ==
    /\ wsProcs[g].pc = "hr_inc"
    /\ \E v \in {ws.reconnectCount + 1, wsProcs[g].seen + 1} :
          ws' = [ws EXCEPT !.reconnectCount = v]
    /\ wsProcs' = [wsProcs EXCEPT ![g] = [@ EXCEPT !.pc = "hr_connect"]]
    /\ UNCHANGED wsRest

\* time.Sleep(delay); Connect(): on an error go ws.handleReconnect() and
\* return, else go on to the reset of the counter
hrConnect(g) ==
    /\ wsProcs[g].pc = "hr_connect" /\ ws.dials < MaxDials
    /\ \/ /\ ws' = Connected(ws)
          /\ wsProcs' = [wsProcs EXCEPT ![g] = [@ EXCEPT !.pc = "hr_reset"]]
       \/ /\ ws' = [ConnectFailed(ws) EXCEPT !.failedSince = @ + 1]
          /\ wsProcs' = Go([wsProcs EXCEPT ![g] = Return(@)], "reconnect", "hr_close")
    /\ UNCHANGED wsRest

\* ws.reconnectCount = 0; go ws.readMessages(); return
hrReset(g) ==
    /\ wsProcs[g].pc = "hr_reset"
    /\ ws' = [ws EXCEPT !.reconnectCount = 0]
    /\ wsProcs' = Go([wsProcs EXCEPT ![g] = Return(@)], "read", "top")
    /\ UNCHANGED wsRest

\* Disconnect(): ws.cancel()
disconnectCancel ==
    /\ ws.started = "yes" /\ ws.disconnect = "no"
    /\ ws' = [ws EXCEPT !.cancelled = TRUE, !.disconnect = "cancelled"]
    /\ UNCHANGED <<wsProcs, wsRest>>

\* Disconnect(): under connMutex the connection is closed and forgotten,
\* and Disconnect returns
disconnectClose ==
    /\ ws.disconnect = "cancelled"
    /\ ws' = [ws EXCEPT !.disconnect = "returned",
                        !.conn = 0,
                        !.connected = IF ws.conn # 0 THEN FALSE ELSE @]
    /\ UNCHANGED <<wsProcs, wsRest>>

InitWebSocket ==
    /\ InitCache /\ InitFetchIdle /\ InitFanoutIdle /\ InitProbeIdle
    /\ readers = {} /\ InitTableIdle /\ InitLoopsIdle /\ InitRegistryIdle
    /\ returned = [l \in Listings |-> NoHandle]
    /\ hermes = NoRequest
    /\ InitWSIdle
    /\ panicked = ""

NextWebSocket ==
    \/ Start
    \/ \E g \in WSProcIds : readTop(g)
    \/ \E g \in WSProcIds : readMessage(g)
    \/ \E g \in WSProcIds : readError(g)
    \/ \E g \in WSProcIds : hrClose(g)
    \/ \E g \in WSProcIds : hrCheck(g)
    \/ \E g \in WSProcIds : hrInc(g)
    \/ \E g \in WSProcIds : hrConnect(g)
    \/ \E g \in WSProcIds : hrReset(g)
    \/ disconnectCancel
    \/ disconnectClose

SpecWebSocket == InitWebSocket /\ [][NextWebSocket]_vars

----------------------------------------------------------------------------
(* Claims on the cache                                                     *)

AllIdle == \A p \in Callers : pc[p] = "idle"

\* C1: round trip. For every (network, source, identifier) that has been
\* written, GetPrice returns exactly the record of the last UpdatePrice to
\* that triple, unless the pruner removed the key after that write.
C1_RoundTrip ==
    \A t \in Triples :
        (lastPut[t] # NoRecord /\ <<t[1], makePrefixedIdentifier(t[2], t[3])>> \notin pruned)
            => GetPrice(t[1], t[3], t[2]) = lastPut[t]

\* two sources hold different records under the same raw identifier on one
\* network, every call has returned, and the first is still read back
C1_Witness ==
    \E t, u \in Triples :
        /\ t[1] = u[1] /\ t[3] = u[3] /\ t[2] # u[2]
        /\ lastPut[t] # NoRecord /\ lastPut[u] # NoRecord
        /\ lastPut[t] # lastPut[u]
        /\ AllIdle
        /\ GetPrice(t[1], t[3], t[2]) = lastPut[t]

\* C2: after every UpdatePrice call has returned and after every PruneCache
\* call has returned, the size reported by GetCacheSize is at most
\* MaxCacheSizeBytes.
C2_SizeUnderCap ==
    [][((\E p \in Callers : UpdatePriceReturn(p)) \/ (\E p \in Callers : PruneCache(p)))
        => estimateSizeUnlocked(data', feeds', customSizeEstimators') <= MaxCacheSizeBytes]_vars

\* every stored entry passes the pruner's keep test, in any order of the sort
SkipMatchesAll ==
    \A order \in SortedOrders(PruneEntries(data, customSizeEstimators)) :
        \A i \in 1..Len(order) :
            IsLatestEntry(order[i], LatestEntries(order, 1, EmptyMap)[PruneKey(order[i])])

\* C3: the pruner never evicts. Every stored record is the most recent one
\* of its own key, and a run of the pruner (from UpdatePrice or from
\* PruneCache) leaves the stored (key, record) pairs as they were.
C3_PruneEvictsNothing ==
    [][((\E p \in Callers : UpdatePricePrune(p)) \/ (\E p \in Callers : PruneCache(p)))
            => (SkipMatchesAll /\ data' = data)]_vars

\* the pruner has run on a cache of several records that is over the cap
C3_Witness ==
    \E p \in Callers :
        /\ pc[p] = "up_pruned"
        /\ PruneTotalSize(data, customSizeEstimators) > MaxCacheSizeBytes
        /\ Cardinality(PruneEntries(data, customSizeEstimators)) >= 2

----------------------------------------------------------------------------
(* Claims on the fetch and on the orchestrator cycle                       *)

\* the fetch of p has ended in an error
FetchEndedInError(p) ==
    call[p].st \in {"returned", "done"} /\ call[p].ret # NoError

\* another goroutine has stored under the key p's fetch would write
StoredBySibling(p) ==
    \E q \in GoroutineIds :
        /\ q # p /\ call[q].wrote
        /\ call[q].networkID = call[p].networkID
        /\ call[q].feedAddress = call[p].feedAddress

\* C4: a fetch that ends in an error writes nothing. Every goroutine whose
\* fetch ended in an error (an error that is not recognized, a failed
\* failover, or retries used up) has made no cache write, the step that ends
\* it leaves the cache as it is, and both the key its feed is tracked under
\* and the key its result would be stored under hold what they held when the
\* fetch started (unless another goroutine's successful fetch stored there).
C4_FailedFetchWritesNothing ==
    /\ [](\A p \in GoroutineIds :
            FetchEndedInError(p) =>
                /\ ~call[p].wrote
                /\ KeyContent(data, p[1], p[2]) = call[p].before[1]
                       \/ \E q \in GoroutineIds : call[q].wrote /\ WriteKey(call[q].feedAddress) = p[2]
                /\ KeyContent(data, p[1], WriteKey(call[p].feedAddress)) = call[p].before[2]
                       \/ StoredBySibling(p))
    /\ [][\A p \in GoroutineIds : goFailed(p) => (data' = data /\ feeds' = feeds)]_vars

\* a cycle has ended in which one fetch failed after a recognized error and
\* a used-up retry, over a record stored earlier, which is still there
C4_Witness ==
    /\ cycle = "done"
    /\ \E p \in GoroutineIds :
          /\ call[p].st = "done" /\ call[p].ret # NoError
          /\ Len(call[p].outcomes) = 2
          /\ call[p].before[2] # NoRecord
          /\ KeyContent(data, p[1], WriteKey(call[p].feedAddress)) = call[p].before[2]

\* the retry bound a caller's MaxRetries stands for: 0 means the default 1
EffectiveMaxRetries(c) == IF c.optMaxRetries = 0 THEN 1 ELSE c.optMaxRetries

LastOutcome(c) == c.outcomes[Len(c.outcomes)]

\* the fetch returned an error right after a recognized failure
GaveUpAfterRecognized(c) ==
    /\ c.st \in {"returned", "done"} /\ c.ret # NoError
    /\ Len(c.outcomes) >= 1
    /\ IsErrorCode32097(LastOutcome(c).err)

\* the parts of the failover bound that need no working switcher: the bound
\* on the attempts, and the returned and stored value being the last attempt's
AttemptsBoundedAndLastValueKept(c) ==
    /\ Len(c.outcomes) <= EffectiveMaxRetries(c) + 1
    /\ (c.st \in {"returned", "done"} /\ c.ret = NoError) =>
          /\ LastOutcome(c).err = NoError
          /\ \A i \in 1..(Len(c.outcomes) - 1) : IsErrorCode32097(c.outcomes[i].err)
          /\ c.value.answer = LastOutcome(c).answer
    /\ (c.st = "done" /\ c.ret = NoError) =>
          KeyContent(data, c.networkID, WriteKey(c.feedAddress)) = c.value

C6_OriginalErrorReturned ==
    \A p \in Procs :
        (call[p].st \in {"returned", "done"} /\ call[p].switchFailed)
            => call[p].ret = ErrLatestRoundData(call[p].err)

\* C7: the switcher is called, and a further attempt made, only after an
\* error that carries a recognized signature, with a switcher configured and
\* the attempt number within the bound; after any other error the fetch has
\* ended with an error, without a call of the switcher following it, and the
\* goroutine stores nothing; when the first error is such an error there was
\* one attempt and no call of the switcher.
C7_RetryOnlyOnRecognized ==
    \A p \in GoroutineIds :
        LET c == call[p]
        IN  /\ c.st \in {"switch", "getclient", "sleep"} =>
                  /\ IsErrorCode32097(c.err) /\ c.rpcSwitcher /\ c.attempt <= c.maxRetries
            /\ \A i \in 1..(Len(c.outcomes) - 1) :
                  /\ IsErrorCode32097(c.outcomes[i].err) /\ c.rpcSwitcher /\ i <= c.maxRetries
            /\ c.switches > 0 => (c.rpcSwitcher /\ c.switches <= c.maxRetries)
            /\ (Len(c.outcomes) >= 1 /\ LastOutcome(c).err # NoError
                    /\ ~IsErrorCode32097(LastOutcome(c).err)) =>
                  /\ c.st \in {"returned", "done"}
                  /\ c.ret # NoError /\ ~c.wrote
                  /\ c.switches = Len(c.outcomes) - 1

\* a goroutine retried after a recognized error, and another, with the
\* same switcher configured, ended after one attempt on another error
C7_Witness ==
    \E p, q \in GoroutineIds :
        /\ call[p].st = "done" /\ Len(call[p].outcomes) = 2 /\ call[p].switches = 1
        /\ call[q].st = "done" /\ Len(call[q].outcomes) = 1 /\ call[q].switches = 0
        /\ call[q].rpcSwitcher /\ call[q].outcomes[1].err = ErrTimeout

\* the goroutines updateAllPrices starts: the feeds of its snapshot on the
\* networks that have a client in its snapshot
SnapshotGoroutines ==
    { p \in GoroutineIds :
        /\ p[1] \in DOMAIN snapFeeds /\ InSeq(snapFeeds[p[1]], p[2])
        /\ p[1] \in DOMAIN snapClients }

\* the goroutines that stored under the key p stores under
StoredValuesAt(p) ==
    { call[q].value : q \in { q \in GoroutineIds :
                                /\ call[q].wrote
                                /\ call[q].networkID = call[p].networkID
                                /\ call[q].feedAddress = call[p].feedAddress } }

CycleDoneIsolated ==
    cycle = "done" =>
        /\ \A p \in SnapshotGoroutines :
              /\ call[p].st = "done" /\ call[p].fetches = 1
              /\ call[p].ret = NoError =>
                    /\ call[p].wrote
                    /\ KeyContent(data, p[1], WriteKey(call[p].feedAddress)) \in StoredValuesAt(p)
        /\ \A p \in GoroutineIds \ SnapshotGoroutines : call[p].fetches = 0

InFlight == { g \in 1..FanoutFeeds : fanout[g] = "fetching" }

\* C9: at every moment of a cycle at most 10 fetches are in flight, and the
\* tokens held in the semaphore count them.
C9_AtMostTenInFlight ==
    /\ Cardinality(InFlight) <= 10
    /\ Cardinality(InFlight) = semaphore

\* ten fetches are in flight while a further goroutine waits for a token
C9_Witness ==
    /\ Cardinality(InFlight) = 10
    /\ \E g \in 1..FanoutFeeds : fanout[g] = "waiting"

----------------------------------------------------------------------------
(* Claims on the endpoint selection                                        *)

\* the batch of network k: the endpoints whose probe sent a positive latency
PositiveProbes(k) ==
    { i \in 1..Len(ProbeNetworks[k].Endpoints) : probed[<<k, i>>] > 0 }

\* C10: latency selection. Once the selection of a network is over, and
\* some probe of its batch measured a positive latency, the selected
\* endpoint is one whose probe measured a positive latency that no other
\* probe of the batch undercut, and it is the one stored for the network;
\* at no time is an endpoint held as best unless its own probe measured a
\* positive latency, so a failed or timed-out probe is never selected.
C10_LatencySelection ==
    \A k \in 1..Len(ProbeNetworks) :
        /\ bestEndpoint[k] # "" =>
              \E i \in PositiveProbes(k) :
                  /\ ProbeNetworks[k].Endpoints[i] = bestEndpoint[k]
                  /\ probed[<<k, i>>] = bestLatency[k]
        /\ (netPhase[k] = "ended" /\ PositiveProbes(k) # {}) =>
              /\ \E i \in PositiveProbes(k) :
                    /\ ProbeNetworks[k].Endpoints[i] = bestEndpoint[k]
                    /\ \A j \in PositiveProbes(k) : probed[<<k, i>>] <= probed[<<k, j>>]
              /\ bestEndpoints[ParseUint(ProbeNetworks[k].NetworkID)] = bestEndpoint[k]

\* the batch {120ms, 45ms, failed} of network 1: the 45ms endpoint is chosen
C10_Witness ==
    /\ netPhase[1] = "ended"
    /\ probed[<<1, 1>>] = 120 /\ probed[<<1, 2>>] = 45 /\ probed[<<1, 3>>] = 0
    /\ bestEndpoints[1] = "e2"

\* the identifier of configured network k, or -1 when it does not parse
ProbeNetworkID(k) == ParseUint(ProbeNetworks[k].NetworkID)

\* the entry of network n in a table: the transport, or "" for no entry
EntryOf(table, n) == IF n \in DOMAIN table THEN table[n] ELSE ""

\* C11: no healthy endpoint. For a network none of whose probes has sent a
\* positive latency, no step of the cycle selects an endpoint, stores one in
\* bestEndpoints, or changes the network's entry of ClientUse (present or
\* absent, it stays as it was); and the step that ends the cycle leaves every
\* network that has a positive probe with its selected endpoint in
\* bestEndpoints and with either that endpoint or its former transport in
\* ClientUse (the latter when the client for it could not be created).
C11_NoHealthyEndpointKeepsTransport ==
    [][\A k \in 1..Len(ProbeNetworks) :
          LET n == ProbeNetworkID(k)
          IN  /\ (n >= 0 /\ PositiveProbes(k)' = {}) =>
                    /\ bestEndpoint'[k] = ""
                    /\ n \notin DOMAIN bestEndpoints'
                    /\ EntryOf(ClientUse', n) = EntryOf(ClientUse, n)
              /\ (n >= 0 /\ PositiveProbes(k)' # {} /\ probeCycle' = "updated") =>
                    /\ n \in DOMAIN bestEndpoints'
                    /\ bestEndpoints'[n] = bestEndpoint'[k]
                    /\ EntryOf(ClientUse', n) \in {bestEndpoints'[n], EntryOf(ClientUse, n)}
      ]_vars

\* every probe of network 1 failed or timed out, the cycle is over, network 1
\* keeps the transport it had and network 2 has the one just selected
C11_Witness ==
    /\ probeCycle = "updated"
    /\ \A i \in 1..Len(ProbeNetworks[1].Endpoints) : probed[<<1, i>>] = 0
    /\ 1 \notin DOMAIN bestEndpoints
    /\ EntryOf(ClientUse, 1) = "e0"
    /\ EntryOf(ClientUse, 2) = "e4"

\* getBestRPCEndpointsParallel can return: every network's goroutine has ended
AllBatchesComplete == \A k \in 1..Len(ProbeNetworks) : netPhase[k] = "ended"

\* the endpoints of network k whose probe has sent its result
Contributed(k) ==
    { i \in 1..Len(ProbeNetworks[k].Endpoints) : probed[<<k, i>>] # Pending }

\* a step adds results to latencyChan only as the one result of one probe
\* that had sent none, and every probe that ends has sent its one result
OneResultPerProbe ==
    \A k \in 1..Len(ProbeNetworks) :
        LET ended == Contributed(k)' \ Contributed(k)
            sent == Len(latencyChan'[k]) - Len(latencyChan[k])
        IN  /\ Cardinality(ended) <= 1
            /\ sent <= Cardinality(ended)
            /\ ended # {} => sent = 1
            /\ Contributed(k) \subseteq Contributed(k)'
            /\ \A i \in Contributed(k) : probed'[<<k, i>>] = probed[<<k, i>>]

\* the batch of network k is complete: one result from each of its endpoints,
\* each a latency below the timeout or the sentinel 0, all received
BatchComplete(k) ==
    /\ Contributed(k) = 1..Len(ProbeNetworks[k].Endpoints)
    /\ \A i \in Contributed(k) : probed[<<k, i>>] >= 0 /\ probed[<<k, i>>] < ProbeTimeout
    /\ latencyChan[k] = <<>> /\ chanClosed[k]

\* the statement as written: when the cycle returns, every configured
\* endpoint has contributed a result to its network's batch
C12_EveryConfiguredEndpointContributes ==
    AllBatchesComplete => \A k \in 1..Len(ProbeNetworks) : BatchComplete(k)

\* C12: the probe cycle terminates. The results waiting on a network's
\* channel never exceed its capacity (the number of endpoints), so no send
\* blocks; each probe of a network whose identifier parses sends exactly one
\* result, a latency below the timeout or the sentinel 0; a network's
\* goroutine ends only on a complete batch; and every cycle that has started
\* reaches the point where all goroutines have ended, whatever the endpoints
\* do, those that never respond included.
C12_ProbeCycleTerminates ==
    /\ [](\A k \in 1..Len(ProbeNetworks) :
            /\ Len(latencyChan[k]) <= Len(ProbeNetworks[k].Endpoints)
            /\ (netPhase[k] = "ended" /\ ProbeNetworkID(k) >= 0) => BatchComplete(k))
    /\ [][OneResultPerProbe]_vars
    /\ (probeCycle = "probing") ~> AllBatchesComplete

\* the cycle is over although no endpoint of network 1 answered in time
C12_Witness ==
    /\ probeCycle = "updated"
    /\ \A i \in 1..Len(ProbeNetworks[1].Endpoints) : probed[<<1, i>>] = 0
    /\ BatchComplete(1) /\ BatchComplete(2)

----------------------------------------------------------------------------
(* Claims on the cache under concurrent callers                            *)

\* the (network, prefixed) keys that hold a record
StoredKeys == UNION { { <<n, k>> : k \in DOMAIN data[n] } : n \in DOMAIN data }

\* the triple an UpdatePrice call was made with
ArgsTriple(a) == <<a.networkID, a.source, a.identifier>>

\* a step that changes the record read for a triple is the write of an
\* UpdatePrice call on that triple, and the record becomes that call's
WriteIsTheCallsRecord ==
    \A t \in Triples :
        GetPrice(t[1], t[3], t[2])' # GetPrice(t[1], t[3], t[2]) =>
            \E p \in Callers :
                /\ pc[p] = "idle" /\ pc'[p] # "idle"
                /\ ArgsTriple(args'[p]) = t
                /\ GetPrice(t[1], t[3], t[2])' = args'[p].priceInfo
                /\ args'[p].priceInfo \in RecordsFor(t[2], t[3])

\* C13: last-write-wins. The cache holds exactly one record per written
\* (network, source, identifier); the record of a key changes only by the
\* write of an UpdatePrice call on that key and becomes the record of that
\* call, whatever time the record it replaces carries; and once every call
\* has returned, each key reads back as the record written last to it.
C13_LastWriteWins ==
    /\ [](Cardinality(StoredKeys) = Cardinality({ t \in Triples : lastPut[t] # NoRecord }))
    /\ [](AllIdle => \A t \in Triples : GetPrice(t[1], t[3], t[2]) = lastPut[t])
    /\ [][WriteIsTheCallsRecord]_vars

\* two UpdatePrice calls on one key are in flight together; the one that
\* wrote first carries the later time, and the key holds the record of the
\* one that wrote last
C13_Witness ==
    \E p, q \in Callers :
        /\ p # q /\ pc[p] = "up_unlocked" /\ pc[q] # "idle"
        /\ ArgsTriple(args[p]) = ArgsTriple(args[q])
        /\ args[p].priceInfo.ts = 2 /\ args[q].priceInfo.ts = 1
        /\ GetPrice(args[q].networkID, args[q].identifier, args[q].source) = args[q].priceInfo

\* C14: no deadlock on the cache lock. A caller that is about to enter the
\* pruner, or has just left it, does not hold the lock; the lock is free
\* whenever every call has returned; and under every interleaving of
\* UpdatePrice, AddFeed, PruneCache, the reads and the status printing, the
\* calls that were started all return.
C14_NoDeadlock ==
    /\ [](\A p \in Callers : pc[p] \in {"up_unlocked", "up_pruned"} => mu # p)
    /\ [](AllIdle => (mu = 0 /\ readers = {}))
    /\ []<>AllIdle

\* a writer has left the pruner and waits for the lock that a reader holds
C14_Witness ==
    \E p, q \in Callers :
        /\ pc[p] = "up_pruned" /\ mu = 0
        /\ pc[q] \in ReadOps /\ q \in readers

\* the positions at which a caller reads cache.data or cache.feeds
ReadingPositions == ReadOps \cup {"ps_count", "ps_range"}

\* C15: every access to the cache's maps is made under the cache's lock. A
\* caller that is reading data or feeds holds mu for reading while no writer
\* holds it, and a caller inside UpdatePrice's critical section holds mu
\* alone.
C15_AccessUnderLock ==
    \A p \in Callers :
        /\ pc[p] \in ReadingPositions => (p \in readers /\ mu = 0)
        /\ pc[p] = "up_locked" => (mu = p /\ readers = {})

----------------------------------------------------------------------------
(* Claims on the endpoint table                                            *)

\* C16: no cross-network locking. A GetBestClient call that waits for the
\* table's lock waits only for a write of its own network's entry, and a
\* write that waits for the lock waits only for readers of the entry it
\* writes.
C16_NoCrossNetworkBlocking ==
    /\ \A g \in Getters :
          (getters[g].st = "waiting" /\ netconfMu # 0) => netconfMu = getters[g].networkID
    /\ publish.st = "waiting" =>
          \A g \in Getters : getters[g].st = "reading" => getters[g].networkID = publish.networkID

----------------------------------------------------------------------------
(* Claims on the periodic loops                                            *)

\* C17: cancellation. Once a loop's stop channel is closed the loop starts
\* no further cycle: the next time it is at its select it returns; a loop
\* that has returned stays returned, and a cycle in flight is left only by
\* coming to its own end.
C17_StopsAtNextTickBoundary ==
    [][\A l \in Loops :
          /\ stopChan[l] => ~(loopPc[l] = "select" /\ loopPc'[l] = "cycle")
          /\ loopPc[l] = "returned" => loopPc'[l] = "returned"
          /\ (loopPc[l] = "cycle" /\ loopPc'[l] # "cycle") => loopPc'[l] = "select"
      ]_vars

----------------------------------------------------------------------------
(* Claims on reads of missing keys and on the tracked feeds                *)

\* a network and an identifier no caller ever writes
UnknownNetwork == 3

UnknownIdentifier == <<"z">>

\* the feed of triple t is in its network's tracked-feed list
Tracked(t) == InSeq(FeedsOf(feeds, t[1]), makePrefixedIdentifier(t[2], t[3]))

\* C18: a read of a key that was never written returns the error and no
\* record: for every (network, source, identifier) without a write,
\* registered with AddFeed or not, for a network that was never seen and for
\* an identifier that was never seen on a network that holds records.
C18_MissingKeyNotFound ==
    /\ \A t \in Triples : lastPut[t] = NoRecord => GetPrice(t[1], t[3], t[2]) = NoRecord
    /\ \A s \in Sources, i \in Identifiers : GetPrice(UnknownNetwork, i, s) = NoRecord
    /\ \A n \in Networks, s \in Sources : GetPrice(n, UnknownIdentifier, s) = NoRecord

\* a feed registered with AddFeed and never written, next to a written feed
\* of the same network, and a network that holds nothing: all three reads
\* of missing keys return no record
C18_Witness ==
    \E t, u \in Triples :
        /\ t[1] = u[1] /\ t # u
        /\ Tracked(t) /\ lastPut[t] = NoRecord
        /\ lastPut[u] # NoRecord
        /\ GetPrice(t[1], t[3], t[2]) = NoRecord
        /\ GetPrice(u[1], UnknownIdentifier, u[2]) = NoRecord
        /\ \E n \in Networks : n \notin DOMAIN data /\ GetPrice(n, t[3], t[2]) = NoRecord

\* no feed appears twice in a network's tracked-feed list
NoDuplicateFeeds ==
    \A n \in DOMAIN feeds :
        \A i, j \in 1..Len(feeds[n]) : i # j => feeds[n][i] # feeds[n][j]

\* a step of AddFeed on a feed that is tracked changes neither list nor map
AddFeedOfTrackedIsNoOp ==
    \A p \in Callers, t \in Triples :
        (Tracked(t) /\ AddFeed(p, t[1], t[3], t[2])) => (feeds' = feeds /\ data' = data)

\* C19: AddFeed is idempotent. An AddFeed call for a feed that is tracked,
\* whether AddFeed or UpdatePrice registered it, leaves the tracked-feed
\* lists and the records as they are, and under every interleaving of
\* AddFeed and UpdatePrice no list holds a feed twice.
C19_AddFeedIdempotent ==
    /\ []NoDuplicateFeeds
    /\ [][AddFeedOfTrackedIsNoOp]_vars

\* UpdatePrice registered a feed, AddFeed was then called for it, and the
\* feed is in the list once
C19_Witness ==
    \E t \in Triples :
        /\ nOps = 2 /\ noopAdds = 1 /\ AllIdle
        /\ lastPut[t] # NoRecord
        /\ FeedsOf(feeds, t[1]) = << makePrefixedIdentifier(t[2], t[3]) >>

\* C20: a stored key is a tracked key. In every state each key that holds a
\* record is in the tracked-feed list of its network.
C20_StoredKeysAreTracked ==
    \A n \in DOMAIN data :
        \A k \in DOMAIN data[n] : InSeq(FeedsOf(feeds, n), k)

\* UpdatePrice wrote keys that no AddFeed registered, and they are tracked
C20_Witness ==
    /\ nOps = 2 /\ noopAdds = 0 /\ AllIdle
    /\ Cardinality(StoredKeys) = 2
    /\ \A e \in StoredKeys : InSeq(FeedsOf(feeds, e[1]), e[2])

----------------------------------------------------------------------------
(* Claims on the listings by source and on namespacing                     *)

\* the networks a listing is asked for: the two in use and one never seen
ListedNetworks == Networks \cup {UnknownNetwork}

\* C21: prefix isolation. For every network n and every source s, every key
\* of GetAllPricesBySource(n, s) is a raw identifier under which a record was
\* inserted under s on n, the record listed under it is the record last
\* inserted under (n, s, that identifier), a record of a kind that source
\* inserts, and it is the one stored under the key "<s>:<identifier>".
C21_PrefixIsolation ==
    \A n \in ListedNetworks, s \in Sources :
        LET result == GetAllPricesBySource(n, s)
        IN  \A identifier \in DOMAIN result :
                /\ <<n, s, identifier>> \in Triples
                /\ lastPut[<<n, s, identifier>>] # NoRecord
                /\ result[identifier] = lastPut[<<n, s, identifier>>]
                /\ result[identifier] \in RecordsFor(s, identifier)
                /\ result[identifier] = data[n][makePrefixedIdentifier(s, identifier)]

\* network 1 holds the identifier "a" under two sources and, under the first,
\* an identifier that begins like the second source's prefix
C21_Witness ==
    /\ AllIdle
    /\ DOMAIN GetAllPricesBySource(1, SourceChainlink) = {<<"a">>, <<"p","y","t","h",":","a">>}
    /\ DOMAIN GetAllPricesBySource(1, SourcePyth) = {<<"a">>}
    /\ DOMAIN GetAllPricesBySource(1, SourceCustom) = {}
    /\ Cardinality(DOMAIN GetAllPrices(1)) = 3

\* u is t under another source: same network, same raw identifier
SameRawIdentifier(t, u) == t[1] = u[1] /\ t[3] = u[3] /\ t[2] # u[2]

\* the record and the tracked status of a triple are the same after the step
Untouched(u) ==
    /\ GetPrice(u[1], u[3], u[2])' = GetPrice(u[1], u[3], u[2])
    /\ Tracked(u)' = Tracked(u)

\* a step of AddFeed or of UpdatePrice (its write, and the pruning it may
\* call) under one source leaves the same raw identifier of the other sources
\* as it was
OtherSourcesUntouched ==
    \A p \in Callers, t \in Triples :
        /\ AddFeed(p, t[1], t[3], t[2]) =>
              \A u \in Triples : SameRawIdentifier(t, u) => Untouched(u)
        /\ (\E v \in RecordsFor(t[2], t[3]) : UpdatePrice(p, t[1], t[3], t[2], v)) =>
              \A u \in Triples : SameRawIdentifier(t, u) => Untouched(u)
        /\ (UpdatePricePrune(p) /\ ArgsTriple(args[p]) = t) =>
              \A u \in Triples : SameRawIdentifier(t, u) => Untouched(u)

\* a record read for a triple is the one last written under that triple, a
\* record of a kind its source writes
ReadsOwnSource ==
    \A u \in Triples :
        LET got == GetPrice(u[1], u[3], u[2])
        IN  got # NoRecord => (got = lastPut[u] /\ got \in RecordsFor(u[2], u[3]))

\* C22: namespacing prevents collisions. On one network, an AddFeed or an
\* UpdatePrice under (s1, id) leaves the record and the tracked status of
\* (s2, id) unchanged for every other source s2, and GetPrice(n, id, s2)
\* never returns a record that was written under s1.
C22_NoCollisionBetweenSources ==
    /\ [][OtherSourcesUntouched]_vars
    /\ []ReadsOwnSource

\* the raw identifier "a" holds a record under chainlink, is tracked without
\* a record under pyth, and is unknown under custom, all on network 1
C22_Witness ==
    /\ AllIdle /\ nOps = 2
    /\ GetPrice(1, <<"a">>, SourceChainlink) \in RecordsFor(SourceChainlink, <<"a">>)
    /\ Tracked(<<1, SourcePyth, <<"a">>>>)
    /\ GetPrice(1, <<"a">>, SourcePyth) = NoRecord
    /\ ~Tracked(<<1, SourceCustom, <<"a">>>>)

----------------------------------------------------------------------------
(* Claims on the order of the failover steps                               *)

\* the step of caller p starts attempt number 2 or later
RetryStarts(p) == call[p].attempt >= 1 /\ call'[p].attempt = call[p].attempt + 1

\* each failover step of caller p follows the one before it: the switch is
\* requested from a failed attempt with a recognized error, the table is read
\* after the switch returned without error, the wait follows the read and keeps
\* the entry that was read, and the next attempt follows a wait of the
\* configured delay and is made with the entry that was read
FailoverStepsInOrder(p) ==
    LET c == call[p]
        d == call'[p]
    IN  /\ (d.st = "switch" /\ c.st # "switch") =>
              /\ c.st = "attempt" /\ IsErrorCode32097(d.err)
        /\ (d.st = "getclient" /\ c.st # "getclient") =>
              /\ c.st = "switch" /\ d.switches = c.switches + 1
        /\ (d.st = "sleep" /\ c.st # "sleep") =>
              /\ c.st = "getclient"
              /\ c.networkID \in DOMAIN ClientUse
              /\ d.newClient = ClientUse[c.networkID]
              /\ d.client = c.client /\ d.attempt = c.attempt /\ d.waited = c.waited
        /\ RetryStarts(p) =>
              /\ c.st = "sleep" /\ d.st = "attempt"
              /\ d.waited = c.waited + c.retryDelay
              /\ c.retryDelay > 0
              /\ (c.retryDelay = DefaultRetryDelay \/ c.retryDelay \in RetryDelays)
              /\ d.client = c.newClient
              /\ Len(d.outcomes) = Len(c.outcomes) /\ Len(c.outcomes) = c.attempt

\* the time waited is one delay per retry, and every provider call but the
\* first was made after a switch, a read of the table and a wait
WaitedOncePerRetry(p) ==
    LET c == call[p]
    IN  c.attempt >= 1 =>
            /\ c.waited = (c.attempt - 1) * c.retryDelay
            /\ c.switches >= c.attempt - 1
            /\ Len(c.outcomes) <= c.attempt

----------------------------------------------------------------------------
(* Claims on the size estimation and its registry                          *)

\* the size of record r follows the priority order under registry reg
SizeFollowsPriority(r, reg, size) ==
    /\ r = NilPriceInfo => size = 0
    /\ (r # NilPriceInfo /\ r.kind = "sizable") => size = r.size
    /\ (r # NilPriceInfo /\ r.kind # "sizable" /\ r.kind \in DOMAIN reg) => size = reg[r.kind]
    /\ (r # NilPriceInfo /\ r.kind \notin DOMAIN reg /\ r.kind = "chainlink") =>
          size = 199 + Len(r.id)
    /\ (r # NilPriceInfo /\ r.kind \notin DOMAIN reg /\ r.kind = "pyth") =>
          size = 191 + Len(r.id) + Len(r.symbol)
    /\ (r # NilPriceInfo /\ r.kind \notin DOMAIN reg /\ r.kind = "custom") => size = 100

\* the registry a finished call of EstimatePriceInfoSize went by: the one of
\* its entry for a call that returned at once, the entry it read otherwise
RegistryOf(c) ==
    IF c.priceInfo = NilPriceInfo \/ c.priceInfo.kind = "sizable" THEN c.atCall
    ELSE SeenRegistry(c)

\* C24: the size of a record is resolved in strict priority order. Under
\* every registry the callers build, a record that reports its size has that
\* size also when an estimator is registered for its kind; any other record
\* has the result of the estimator registered for its kind, also a Chainlink
\* or Pyth record; without one, a Chainlink or Pyth record has its built-in
\* formula and any other record 100 bytes; a nil record has size 0. Every
\* finished call of EstimatePriceInfoSize returned that size.
C24_SizePriorityOrder ==
    /\ \A r \in SizedRecords :
          SizeFollowsPriority(r, customSizeEstimators,
                              EstimatePriceInfoSize(r, customSizeEstimators))
    /\ \A p \in SizeCallers :
          (sizing[p].pc = "done" /\ sizing[p].z = 0) =>
              SizeFollowsPriority(sizing[p].priceInfo, RegistryOf(sizing[p]), sizing[p].result)

\* estimators are registered for the self-reporting kind and for Chainlink;
\* a self-reporting record was sized by its own report and a Chainlink
\* record by the registered estimator
C24_Witness ==
    \E p, q \in SizeCallers :
        /\ sizing[p].pc = "done" /\ sizing[q].pc = "done"
        /\ sizing[p].priceInfo # NilPriceInfo /\ sizing[p].priceInfo.kind = "sizable"
        /\ "sizable" \in DOMAIN sizing[p].atCall
        /\ sizing[p].atCall["sizable"] = 100
        /\ sizing[p].result = 6 * 1024 * 1024
        /\ sizing[q].priceInfo # NilPriceInfo /\ sizing[q].priceInfo.kind = "chainlink"
        /\ sizing[q].estimator = 100 /\ sizing[q].result = 100

\* the calls of EstimatePriceInfoSize that went to the registry and read it
ReadTheRegistry(c) ==
    /\ c.pc \in {"est_unlocked", "done"}
    /\ c.priceInfo # NilPriceInfo /\ c.priceInfo.kind # "sizable"

\* C26: the registry is race-safe. The write of RegisterSizeEstimator is made
\* with customEstimatorsMu held for writing and the read of
\* EstimatePriceInfoSize with it held for reading, never both at once, so
\* no read races with a write; a lookup finds an entry whenever one was
\* registered for the kind before the call, and the estimator it uses is the
\* one registered at the call or one registered for that kind since.
C26_RegistryRaceSafe ==
    /\ customEstimatorsMu # 0 => estimatorReaders = {}
    /\ \A p \in SizeCallers :
          LET c == sizing[p]
          IN  /\ c.pc \in {"reg_locked", "reg_stored"} => customEstimatorsMu = p
              /\ c.pc = "est_locked" => p \in estimatorReaders
              /\ ~c.raced
              /\ ReadTheRegistry(c) =>
                    /\ c.estimator = NoEstimator => c.kind \notin DOMAIN c.atCall
                    /\ c.estimator # NoEstimator =>
                          \/ c.kind \in DOMAIN c.atCall /\ c.atCall[c.kind] = c.estimator
                          \/ <<c.kind, c.estimator>> \in c.since

\* a lookup was under way while another estimator was registered for its
\* kind, and it used the new one
C26_Witness ==
    \E p, q \in SizeCallers :
        LET c == sizing[q]
        IN  /\ sizing[p].pc = "idle" /\ sizing[p].kind = c.kind /\ sizing[p].z = c.estimator
            /\ c.pc = "done" /\ ReadTheRegistry(c)
            /\ c.kind \in DOMAIN c.atCall /\ c.atCall[c.kind] # c.estimator
            /\ <<c.kind, c.estimator>> \in c.since
            /\ c.result = c.estimator

\* the kinds that have no built-in formula
CustomKinds == {"custom", "sizable"}

\* the cache holds records, all of one kind
HoldsOnly(kind) ==
    /\ StoredKeys # {}
    /\ \A e \in StoredKeys : data[e[1]][e[2]].kind = kind

\* what the keys, the networks and the tracked-feed lists add to the size
KeysOverhead ==
    SumOver(DOMAIN data,
        [n \in DOMAIN data |-> 8 + SumOver(DOMAIN data[n], [k \in DOMAIN data[n] |-> Len(k) + 8])])
    + SumOver(DOMAIN feeds,
        [n \in DOMAIN feeds |-> 8 + SumSeq([i \in 1..Len(feeds[n]) |-> Len(feeds[n][i]) + 8])])

\* the size a record of the kind has before an estimator is registered
SizeBefore(kind) ==
    IF kind \in DOMAIN customSizeEstimators THEN customSizeEstimators[kind] ELSE 100

\* C25 (as stated): for a cache that holds only records of one custom kind,
\* registering an estimator for that kind changes GetCacheSize(), and the
\* part of the value that is not made of keys is the number of records times
\* the registered function's result.
C25_RegisteringChangesCacheSize ==
    [][\A kind \in CustomKinds, z \in RegisteredSizes :
          (HoldsOnly(kind) /\ RegisterSizeEstimator(kind, z)) =>
              /\ GetCacheSize' # GetCacheSize
              /\ GetCacheSize' - KeysOverhead' = Cardinality(StoredKeys) * z]_vars

\* C25 (amended): for a kind that does not report its own size, the value
\* moves by the number of records times the difference between the
\* registered function's result and the size the records had before, and so
\* changes only when the two differ; the part of the value that is not made
\* of keys is the number of records times the result. For a kind that
\* reports its own size the registration changes nothing.
C25_CacheSizeFollowsEstimator ==
    [][\A z \in RegisteredSizes :
          /\ (HoldsOnly("custom") /\ RegisterSizeEstimator("custom", z)) =>
                /\ GetCacheSize' = GetCacheSize + Cardinality(StoredKeys) * (z - SizeBefore("custom"))
                /\ GetCacheSize' - KeysOverhead' = Cardinality(StoredKeys) * z
                /\ (z # SizeBefore("custom")) => GetCacheSize' # GetCacheSize
          /\ (HoldsOnly("sizable") /\ RegisterSizeEstimator("sizable", z)) =>
                GetCacheSize' = GetCacheSize]_vars

\* two records of the custom kind and nothing else, sized by an estimator
\* registered after they were written
C25_Witness ==
    /\ AllIdle /\ nOps = 3
    /\ HoldsOnly("custom") /\ Cardinality(StoredKeys) = 2
    /\ "custom" \in DOMAIN customSizeEstimators
    /\ customSizeEstimators["custom"] = 6 * 1024 * 1024
    /\ GetCacheSize = KeysOverhead + 2 * 6 * 1024 * 1024

----------------------------------------------------------------------------
(* Claims on what the listings show                                        *)

----------------------------------------------------------------------------
(* Claims on the independence of the networks in a probing pass            *)

\* the state a probing pass keeps for network k
NetworkSlot(k) ==
    <<netPhase[k], latencyChan[k], chanClosed[k], bestEndpoint[k], bestLatency[k],
      [e \in { x \in ProbeIds : x[1] = k } |-> probed[e]]>>

\* a step of a probing pass changes the state of one network at most
OneNetworkPerStep ==
    (probeCycle = "probing" /\ probeCycle' = "probing") =>
        \A j, k \in 1..Len(ProbeNetworks) :
            (j # k /\ NetworkSlot(j)' # NetworkSlot(j)) => NetworkSlot(k)' = NetworkSlot(k)

\* C28: every known network is probed independently. A step of the pass
\* changes the state of one network only; a network that has not stored its
\* selection always has a step it can take, whatever the others are doing;
\* and a network whose goroutines are scheduled comes to the end of its
\* selection even if the endpoints of the other networks never answer.
C28_NetworksProbedIndependently ==
    /\ [][OneNetworkPerStep]_vars
    /\ [](\A k \in 1..Len(ProbeNetworks) :
            netPhase[k] = "selecting" => ENABLED networkStep(k))
    /\ (netPhase[ProbedNetwork] = "selecting") ~> (netPhase[ProbedNetwork] = "ended")

\* network 2 has selected and stored its endpoint while none of the three
\* endpoints of network 1 has answered
C28_Witness ==
    /\ probeCycle = "probing"
    /\ netPhase[1] = "selecting"
    /\ \A i \in 1..3 : probed[<<1, i>>] = Pending
    /\ netPhase[2] = "ended"
    /\ EntryOf(bestEndpoints, 2) = "e4"

----------------------------------------------------------------------------
(* Claims on a network without a transport                                 *)

\* the calls of fetchPriceData made for a network pm.clients has no entry for
NoTransportCalls ==
    { p \in Procs : call[p].st # "none" /\ call[p].fetches > 0
                      /\ call[p].networkID \notin DOMAIN clients }

\* the goroutines a cycle has to start: one per feed of the snapshot whose
\* network has a client in the snapshot
FeedsWithTransport ==
    { p \in GoroutineIds :
        /\ p[1] \in DOMAIN snapFeeds /\ InSeq(snapFeeds[p[1]], p[2])
        /\ p[1] \in DOMAIN snapClients }

\* C29: NoTransport. A call of fetchPriceData for a network without a client
\* has returned the error "no client available for network <id>" at once: no
\* provider call, no switcher call, no value, no cache write, and the step
\* leaves the cache as it is. A cycle starts no goroutine for the feeds of a
\* network without a client and writes nothing for such a network, and it
\* starts one for every feed of every network that has a client; when the
\* cycle has ended each of these has called the provider.
C29_NoTransport ==
    /\ [](\A p \in NoTransportCalls :
            /\ call[p].st \in {"returned", "done"}
            /\ call[p].ret = ErrNoClient(call[p].networkID)
            /\ call[p].outcomes = <<>> /\ call[p].switches = 0
            /\ call[p].value = NoRecord /\ ~call[p].wrote)
    /\ [][\A n \in Networks, f \in DirectFeeds :
            (directFetch(n, f) /\ n \notin DOMAIN clients) =>
                (data' = data /\ feeds' = feeds /\ call'[Direct].st = "returned")]_vars
    /\ [](cycle \in {"running", "done"} =>
            \A p \in GoroutineIds :
                /\ p[1] \notin DOMAIN snapClients => call[p].st = "none"
                /\ p \in FeedsWithTransport => call[p].st # "none"
                /\ (p \in FeedsWithTransport /\ cycle = "done") =>
                      (call[p].st = "done" /\ Len(call[p].outcomes) >= 1))
    /\ [][\A n \in Networks :
            n \notin DOMAIN clients =>
                (/\ (n \in DOMAIN data') = (n \in DOMAIN data)
                 /\ n \in DOMAIN data => data'[n] = data[n])]_vars

\* fetchPriceData for network 2, which has no client, has returned the
\* error, and then a cycle over feeds of networks 1 and 2 has ended with the
\* feed of network 1 fetched and stored and no goroutine for that of network 2
C29_Witness ==
    /\ call[Direct].st = "returned"
    /\ call[Direct].networkID = 2 /\ 2 \notin DOMAIN clients
    /\ call[Direct].ret = ErrNoClient(2)
    /\ cycle = "done"
    /\ 2 \notin DOMAIN snapClients
    /\ 2 \in DOMAIN snapFeeds /\ snapFeeds[2] # <<>>
    /\ \E p \in FeedsWithTransport : p[1] = 1 /\ call[p].wrote
    /\ \A p \in GoroutineIds : p[1] = 2 => call[p].st = "none"

----------------------------------------------------------------------------
(* Claims on the maps handed to callers                                    *)

\* the maps a caller holds
HeldListings == { l \in Listings : returned[l].fn # "none" }

\* C30: the maps returned by GetAllPrices, GetAllPricesBySource and
\* GetAllClients are copies. What the holder reads in a returned map is what
\* the map held when it was returned, changed by the holder's own writes
\* only; no update of the cache or of the endpoint table changes a map that
\* is held; and no write or delete of a holder in its map changes the cache
\* or the endpoint table.
C30_ReturnedMapsAreCopies ==
    /\ [](\A l \in HeldListings : Deref(returned[l]) = returned[l].expected)
    /\ [][\A l \in Listings :
            (returned[l].fn # "none" /\ returned'[l] = returned[l]) =>
                Deref(returned[l])' = Deref(returned[l])]_vars
    /\ [][\A l \in Listings :
            (writeReturned(l) \/ deleteReturned(l)) =>
                (data' = data /\ feeds' = feeds /\ ClientUse' = ClientUse)]_vars

\* a listing of network 1 and a listing of the clients are held, each written
\* by its holder once, and since they were returned the cache has a new
\* record for network 1 and the table a new client
C30_Witness ==
    /\ returned["prices"].fn = "GetAllPrices" /\ returned["prices"].networkID = 1
    /\ returned["prices"].atReturn # EmptyMap
    /\ returned["prices"].written
    /\ GetAllPrices(1) # returned["prices"].atReturn
    /\ GetAllPrices(1) # Deref(returned["prices"])
    /\ returned["clients"].fn = "GetAllClients"
    /\ returned["clients"].atReturn # EmptyMap
    /\ returned["clients"].written
    /\ ClientUse # returned["clients"].atReturn
    /\ ClientUse # Deref(returned["clients"])

----------------------------------------------------------------------------
(* Claims on the Hermes HTTP request                                       *)

\* an outcome after which the request is tried again: a transport error or
\* a response whose status is not 2xx
IsFailedAttempt(out) ==
    out.kind = "transport" \/ (out.kind = "response" /\ (out.status < 200 \/ out.status > 299))

\* C31: one Hermes HTTP request makes at most httpRetries + 1 attempts; every
\* attempt but the last one ended in a transport error or a non-2xx response
\* (so a retry follows only such an attempt, and a 2xx response is the last
\* attempt); and a request all of whose attempts failed returns the error
\* of its last attempt.
C31_HTTPRetryBound ==
    LET n == Len(hermes.outcomes)
    IN  /\ hermes.httpRetries >= 0 => n <= hermes.httpRetries + 1
        /\ hermes.httpRetries < 0 => n = 0
        /\ \A i \in 1..(n - 1) : IsFailedAttempt(hermes.outcomes[i])
        /\ hermes.st \in {"sleep", "loop"} =>
              \A i \in 1..n : IsFailedAttempt(hermes.outcomes[i])
        /\ (hermes.st = "returned" /\ n >= 1
               /\ \A i \in 1..n : IsFailedAttempt(hermes.outcomes[i])
               /\ hermes.ret # ErrCreateRequest) =>
              /\ hermes.ret = AttemptError(hermes.outcomes[n])
              /\ hermes.ret # NoError
              /\ n = hermes.httpRetries + 1

\* the default three retries: three failed attempts of different kinds, the
\* fourth fails with status 500 and its error is returned
C31_Witness ==
    /\ hermes.st = "returned" /\ hermes.httpRetries = DefaultHTTPRetries
    /\ Len(hermes.outcomes) = 4
    /\ hermes.outcomes[1].kind = "transport"
    /\ hermes.outcomes[2].kind = "response" /\ hermes.outcomes[2].status = 404
    /\ hermes.outcomes[4].kind = "response" /\ hermes.outcomes[4].status = 500
    /\ hermes.ret = ErrHTTPStatus(500)

----------------------------------------------------------------------------
(* Claims on the WebSocket client                                          *)

\* a step in which handleReconnect dials
ReconnectDial == ws'.dials = ws.dials + 1 /\ ws.started = "yes"

\* C32: the client gives up after maxReconnects reconnection attempts. The
\* reconnect counter never exceeds maxReconnects; no more than maxReconnects
\* reconnection attempts fail in a row, and none is made with the counter
\* above maxReconnects; and every successful connection leaves the counter
\* at 0.
C32_ReconnectBound ==
    /\ [](ws.reconnectCount <= ws.maxReconnects)
    /\ [](ws.failedSince <= ws.maxReconnects)
    /\ [][ReconnectDial => ws.reconnectCount <= ws.maxReconnects]_vars
    /\ [][(ws'.dials = ws.dials + 1 /\ ws'.lastDial = "ok") => ws'.reconnectCount = 0]_vars

\* the reading loops that are running: in readMessages, outside a call of
\* handleReconnect
ActiveReaders ==
    { g \in WSProcIds : wsProcs[g].kind = "read" /\ wsProcs[g].pc \in {"top", "reading"} }

\* C35: at most one message-reading loop is active for a WebSocket client
\* at any time.
C35_OneReadingLoop == Cardinality(ActiveReaders) <= 1

\* C36: Disconnect is final. Once Disconnect has returned the client is not
\* connected and holds no connection, and no reading loop reads from one.
C36_DisconnectIsFinal ==
    ws.disconnect = "returned" =>
        /\ ~ws.connected /\ ws.conn = 0
        /\ \A g \in WSProcIds : wsProcs[g].pc # "reading"

----------------------------------------------------------------------------
(* Claims on what the Chainlink cycle fetches                              *)

\* C33: the Chainlink orchestrator fetches only feeds registered under the
\* Chainlink source. Every goroutine that has called the chain client was
\* started for a key that carries the Chainlink prefix, and every goroutine
\* that has stored a record stored it under a key that was tracked as a
\* Chainlink feed when the cycle began.
C33_OnlyChainlinkFeedsFetched ==
    \A p \in GoroutineIds :
        /\ Len(call[p].outcomes) >= 1 => HasPrefix(p[2], SourceChainlink \o <<":">>)
        /\ call[p].wrote =>
              /\ HasPrefix(p[2], SourceChainlink \o <<":">>)
              /\ InSeq(FeedsOf(snapFeeds, p[1]), WriteKey(call[p].feedAddress))

----------------------------------------------------------------------------
(* Claims on the cycles of one monitor                                     *)

\* the goroutines of a cycle that have not ended
FetchesInFlight == { p \in GoroutineIds : call[p].st \notin {"none", "done"} }

\* a list of tracked feeds names no feed twice
NoFeedTwice(f) == \A i, j \in 1..Len(f) : f[i] = f[j] => i = j

\* C34: the fetch cycles of one monitor never overlap. A cycle starts only
\* when no fetch of an earlier cycle is in flight; while Start waits in its
\* select no fetch is in flight; a tick that fires changes neither the cycle
\* nor any fetch; and the feeds a cycle starts goroutines for are listed
\* once each, so that no feed has two fetches in flight.
C34_CyclesNeverOverlap ==
    /\ [][updateAllPrices => FetchesInFlight = {}]_vars
    /\ [](loopPc["fetch"] = "select" => FetchesInFlight = {})
    /\ [][ticks' # ticks => (cycle' = cycle /\ call' = call /\ loopPc' = loopPc)]_vars
    /\ [](\A n \in DOMAIN snapFeeds : NoFeedTwice(snapFeeds[n]))

\* in the second cycle a fetch is in the wait of its failover while the next
\* tick has fired and waits in the ticker's channel
C34_Witness ==
    /\ loopPc["fetch"] = "cycle" /\ cycle = "running"
    /\ ticks >= 2 /\ tickPending["fetch"]
    /\ \E p \in GoroutineIds : call[p].st = "sleep"
    /\ \E n \in DOMAIN data : data[n] # EmptyMap

----------------------------------------------------------------------------
(* Claims on Stop                                                          *)

\* C37: Stop is safe to call more than once: no call of Stop panics.
C37_StopTwiceIsSafe == panicked = ""

----------------------------------------------------------------------------
(* Claims on what a stored record says of itself                           *)

\* C38: every stored record agrees with the key it is stored under: the
\* record held under (network n, source s, identifier id) has source tag s,
\* network id n and identifier id.
C38_RecordAgreesWithKey ==
    \A n \in DOMAIN data : \A prefixed \in DOMAIN data[n] :
        /\ GetNetworkID(data[n][prefixed]) = n
        /\ makePrefixedIdentifier(GetSource(data[n][prefixed]),
                                  GetIdentifier(data[n][prefixed])) = prefixed

----------------------------------------------------------------------------
(* Claims on the size check and the pruner                                 *)

\* C39: the trigger and the pruner agree on the size: whenever UpdatePrice
\* invokes the pruner because its size estimate exceeds the cap, the pruner's
\* own total for the same cache state exceeds the cap too, so that the pruner
\* does not return early as under the limit in a state that triggered it.
C39_TriggerAndPrunerAgree ==
    [][\A p \in Callers :
          (pc[p] = "idle" /\ pc'[p] = "up_unlocked")
              => PruneTotalSize(data', customSizeEstimators') > MaxCacheSizeBytes]_vars

====
